---- MODULE Spec2Model ----
(***************************************************************************)
(* A model of the AI gateway's request routing and admission control:      *)
(* app/security.py (verify_usage), app/routers/gateway.py (check_limits,   *)
(* select_model_from_group, handle_litellm_exception, list_models, chat),  *)
(* app/cache.py (LogCache) and the administrative operations of            *)
(* app/routers/admin.py that the gateway's behaviour depends on.           *)
(*                                                                         *)
(* Strings are TLA+ strings; the string operations of the code             *)
(* (startswith, replace, split, in, re.sub, lower) are computed on them    *)
(* character by character.                                                 *)
(***************************************************************************)
EXTENDS Integers, Sequences, FiniteSets, TLC

VARIABLES
    \* persistent store
    providers,      \* Provider table: the set of provider names (primary key)
    groups,         \* ModelGroup table: group id -> balance_strategy
    members,        \* GroupMember table: sequence of rows, in row id order
    keys,           \* GatewayKey table: key -> row
    logs,           \* RequestLog table: sequence of rows, row id = position
    \* cache store
    redis_client,   \* TRUE when the cache store is configured
    rr_counter,     \* "rr_counter:<group>" -> integer
    ratelimit,      \* "ratelimit:<key>" -> [count, ttl]; count 0: no such key
    log_buffer,     \* "gw:log_buffer": the write-behind list
    \* process
    now,            \* the clock, in seconds
    phase,          \* "running" | "final_flush" | "stopped"
    flush,          \* the flush_to_db invocations, by task: [pc, items, left, ...]
    req,            \* the handler invocations in flight
    calls,          \* number of invocations started so far
    \* history
    picks,          \* the members chosen by round robin, in INCR order
    admits,         \* the admission decisions, in order: [key, t, status]
    dispatched,     \* the keyword arguments of each acompletion call, in order
    listings        \* the list_models results, in order: [t, data, providers]

config == <<providers, groups, members, redis_client>>
admission == <<keys, ratelimit, admits>>
resolution == <<rr_counter, picks>>
logging == <<logs, log_buffer, phase, flush>>

vars == <<config, admission, resolution, logging, now, req, calls, dispatched, listings>>

\* Python's None: for an optional string or integer, and for a missing row
None == "None"
NoRow == [missing |-> TRUE]
\* Optional[int]: <<>> is None, <<n>> is the integer n
\* flush_to_db is not running
IdleFlush == [pc |-> "idle", items |-> <<>>, left |-> 0, committed |-> FALSE,
              dropped |-> <<>>]
\* one task calls flush_to_db
OneFlush == [f \in {"f1"} |-> IdleFlush]

NoInt == <<>>
Some(n) == <<n>>

(***************************************************************************)
(* String operations                                                       *)
(***************************************************************************)
Char(s, i) == SubSeq(s, i, i)

\* str.startswith
StartsWith(s, p) == Len(s) >= Len(p) /\ SubSeq(s, 1, Len(p)) = p

\* str.find, 1-based; 0 when sub does not occur in s
Find(s, sub) ==
    LET hits == {i \in 1..(Len(s) - Len(sub) + 1) : SubSeq(s, i, i + Len(sub) - 1) = sub}
    IN  IF hits = {} THEN 0 ELSE CHOOSE i \in hits : \A j \in hits : i <= j

\* sub in s
Contains(s, sub) == Find(s, sub) # 0

\* s.replace(old, new, 1)
ReplaceFirst(s, old, new) ==
    LET i == Find(s, old)
    IN  IF i = 0 THEN s
        ELSE SubSeq(s, 1, i - 1) \o new \o SubSeq(s, i + Len(old), Len(s))

\* s.split(sep, 1)
SplitFirst(s, sep) ==
    LET i == Find(s, sep)
    IN  IF i = 0 THEN <<s>>
        ELSE <<SubSeq(s, 1, i - 1), SubSeq(s, i + Len(sep), Len(s))>>

\* s.split(sep)
RECURSIVE Split(_, _)
Split(s, sep) ==
    LET i == Find(s, sep)
    IN  IF i = 0 THEN <<s>>
        ELSE <<SubSeq(s, 1, i - 1)>> \o Split(SubSeq(s, i + Len(sep), Len(s)), sep)

(***************************************************************************)
(* Bounds of the model                                                     *)
(***************************************************************************)
MaxCalls == 4           \* invocations started in one behaviour
MaxMembers == 3         \* members of the load-balanced group
MaxStart == 2           \* value of the group's rr_counter before the first call

MaxWeight == 2          \* the largest weight of a group member
MaxEntries == 52        \* log entries handed to add_log in one behaviour
MaxCatalogTime == 400   \* the clock of the catalog model stops here
CatalogStep == 200      \* seconds that pass in one step of that clock
MaxChunks == 2          \* chunks of one streamed response
MaxChats == 2           \* chat requests started in one behaviour
MaxLimit == 2           \* largest usage_limit of the client key
MaxRate == 2            \* largest rate_limit of the client key
MaxTime == 90           \* the clock stops advancing here
TickStep == 30          \* seconds the clock advances in one step

Callers == {"c1", "c2"}
Reqs == {"r1"}

(***************************************************************************)
(* Configuration records (app/models.py)                                   *)
(***************************************************************************)
ProviderNames == {"p1", "p2", "group"}

\* A Provider row; name is the primary key and the routing alias.
Provider(name) ==
    [name          |-> name,
     api_key       |-> "sk-" \o name,
     base_url      |-> IF name = "p2" THEN "http://p2/v1" ELSE None,
     provider_type |-> IF name = "p2" THEN "openrouter" ELSE "openai"]

Strategies == {"random", "round_robin", "weighted"}

\* A GroupMember row.
GroupMember(id, group_id, provider_name, target_model, weight) ==
    [id |-> id, group_id |-> group_id, provider_name |-> provider_name,
     target_model |-> target_model, weight |-> weight]

\* session.get(Provider, name): the row, or no row
GetProviderAny(name) == Provider(name)
GetProvider(name) == IF name \in providers THEN Provider(name) ELSE NoRow

\* select(GroupMember).where(GroupMember.group_id == gid), in row id order
RECURSIVE MembersOf(_, _)
MembersOf(rows, gid) ==
    IF rows = <<>> THEN <<>>
    ELSE (IF Head(rows).group_id = gid THEN <<Head(rows)>> ELSE <<>>)
         \o MembersOf(Tail(rows), gid)

(***************************************************************************)
(* select_model_from_group (app/routers/gateway.py)                        *)
(***************************************************************************)
GroupPrefix == "group/"

HTTPException(status_code, detail) ==
    [kind |-> "http", status |-> status_code, detail |-> detail]

Resolved(provider, model) == [kind |-> "ok", provider |-> provider, model |-> model]

NotResolved == [kind |-> "none"]

Pending == [kind |-> "pending"]

\* redis INCR: the value stored and returned for a counter holding old
IncrNoStore(old) == old
Incr(old) == old + 1

\* index = count % len(members)
RoundRobinIndex(count, n) == count % n

\* weighted_pool: each member repeated weight times ([m] * w is [] for w <= 0)
RepeatOnce(m, w) == <<m>>
RECURSIVE Repeat(_, _)
Repeat(m, w) == IF w <= 0 THEN <<>> ELSE <<m>> \o Repeat(m, w - 1)

RECURSIVE WeightedPool(_)
WeightedPool(ms) ==
    IF ms = <<>> THEN <<>>
    ELSE Repeat(Head(ms), Head(ms).weight) \o WeightedPool(Tail(ms))

\* random.choice(seq): the element at any one position
Choice(seq) == 1..Len(seq)

IdleReq ==
    [pc |-> "idle", ret |-> None,
     \* the request
     cookie |-> None, header |-> None, body |-> NoRow, raw |-> None,
     \* verify_usage, check_limits
     k |-> NoRow, current |-> 0,
     \* select_model_from_group (routes: the lookups made with the model string)
     routes |-> {},
     \* the endpoint of an image or audio request
     endpoint |-> None,
     \* list_models (up: the providers whose upstream answered 200 in time)
     up |-> {},
     clean_id |-> None, group |-> None, mlist |-> <<>>, pool |-> <<>>, index |-> 0,
     selected |-> NoRow,
     result |-> Pending,
     \* chat
     log_entry |-> NoRow, rows |-> {}, backend |-> "not called", error |-> NoRow,
     chunks |-> <<>>,
     \* list_models (before: the providers configured when the request came)
     before |-> {}, ps |-> <<>>, raw_models |-> <<>>,
     \* the response sent to the client
     resp |-> NoRow]

\* if raw_model_id.startswith("group/"): ... elif "/" in raw_model_id: ...
IsGroupRouteIfGroupExists(raw) ==
    StartsWith(raw, GroupPrefix) /\ ReplaceFirst(raw, GroupPrefix, "") \in DOMAIN groups
IsGroupRoute(raw) == StartsWith(raw, GroupPrefix)

\* raw_model_id.startswith("group/"): session.get(ModelGroup, clean_id)
SelectGroupLookup(r) ==
    /\ req[r].pc = "select"
    /\ IsGroupRoute(req[r].raw)
    /\ LET clean_id == ReplaceFirst(req[r].raw, GroupPrefix, "")
       IN  IF clean_id \notin DOMAIN groups
           THEN req' = [req EXCEPT ![r].clean_id = clean_id, ![r].routes = {"group"},
                          ![r].result = HTTPException(404,
                              "Model Group '" \o clean_id \o "' not found."),
                          ![r].pc = req[r].ret]
           ELSE req' = [req EXCEPT ![r].clean_id = clean_id, ![r].routes = {"group"},
                          ![r].group = groups[clean_id],
                          ![r].pc = "select_members"]
    /\ UNCHANGED <<config, admission, resolution, logging, now, calls, dispatched, listings>>

\* the members query and the empty-group check
SelectMembersQuery(r) ==
    /\ req[r].pc = "select_members"
    /\ LET ms == MembersOf(members, req[r].clean_id)
       IN  IF ms = <<>>
           THEN req' = [req EXCEPT ![r].result = HTTPException(503,
                              "Group '" \o req[r].clean_id \o "' has no active models."),
                          ![r].pc = req[r].ret]
           ELSE req' = [req EXCEPT ![r].mlist = ms, ![r].pc = "select_member"]
    /\ UNCHANGED <<config, admission, resolution, logging, now, calls, dispatched, listings>>

SelectMemberNoFallback(r) ==
    /\ req[r].pc = "select_member"
    /\ LET ms == req[r].mlist
           gid == req[r].clean_id
       IN  IF req[r].group = "round_robin" /\ redis_client
           THEN LET count == Incr(rr_counter[gid])
                    m == ms[RoundRobinIndex(count, Len(ms)) + 1]
                IN  /\ rr_counter' = [rr_counter EXCEPT ![gid] = count]
                    /\ picks' = Append(picks, m.id)
                    /\ req' = [req EXCEPT ![r].selected = m, ![r].pc = "select_provider"]
           ELSE /\ LET pool == IF req[r].group = "weighted" THEN WeightedPool(ms) ELSE ms
                   IN  IF pool = <<>>
                       THEN req' = [req EXCEPT
                                ![r].result = HTTPException(500, "Internal Server Error"),
                                ![r].pc = req[r].ret]
                       ELSE \E i \in Choice(pool) :
                                req' = [req EXCEPT ![r].pool = pool, ![r].index = i,
                                           ![r].selected = pool[i],
                                           ![r].pc = "select_provider"]
                /\ UNCHANGED <<rr_counter, picks>>
    /\ UNCHANGED <<config, admission, logging, now, calls, dispatched, listings>>
\* the choice of a member by balance_strategy
SelectMember(r) ==
    /\ req[r].pc = "select_member"
    /\ LET ms == req[r].mlist
           gid == req[r].clean_id
       IN  IF req[r].group = "round_robin" /\ redis_client
           THEN LET count == Incr(rr_counter[gid])
                    m == ms[RoundRobinIndex(count, Len(ms)) + 1]
                IN  /\ rr_counter' = [rr_counter EXCEPT ![gid] = count]
                    /\ picks' = Append(picks, m.id)
                    /\ req' = [req EXCEPT ![r].selected = m, ![r].pc = "select_provider"]
           ELSE /\ LET pool == IF req[r].group = "weighted" /\ WeightedPool(ms) # <<>>
                                THEN WeightedPool(ms) ELSE ms
                   IN  \E i \in Choice(pool) :
                           req' = [req EXCEPT ![r].pool = pool, ![r].index = i,
                                       ![r].selected = pool[i], ![r].pc = "select_provider"]
                /\ UNCHANGED <<rr_counter, picks>>
    /\ UNCHANGED <<config, admission, logging, now, calls, dispatched, listings>>

\* session.get(Provider, selected_member.provider_name)
SelectProviderLookup(r) ==
    /\ req[r].pc = "select_provider"
    /\ LET m == req[r].selected
           provider == GetProvider(m.provider_name)
       IN  req' = [req EXCEPT
                     ![r].result =
                         IF provider = NoRow
                         THEN HTTPException(500, "Provider '" \o m.provider_name
                                                   \o "' linked to group not found.")
                         ELSE Resolved(provider, m.target_model),
                     ![r].pc = req[r].ret]
    /\ UNCHANGED <<config, admission, resolution, logging, now, calls, dispatched, listings>>

\* the direct provider/model form, and the fall-through return None, None
SelectDirect(r) ==
    /\ req[r].pc = "select"
    /\ ~IsGroupRoute(req[r].raw)
    /\ LET raw == req[r].raw
           parts == SplitFirst(raw, "/")
           provider == IF Contains(raw, "/") /\ Len(parts) = 2
                       THEN GetProvider(parts[1]) ELSE NoRow
       IN  req' = [req EXCEPT
                     ![r].routes = IF Contains(raw, "/") /\ Len(parts) = 2
                                   THEN {"direct"} ELSE {},
                     ![r].result = IF provider # NoRow
                                   THEN Resolved(provider, parts[2]) ELSE NotResolved,
                     ![r].pc = req[r].ret]
    /\ UNCHANGED <<config, admission, resolution, logging, now, calls, dispatched, listings>>

select_model_from_group(r) ==
    \/ SelectGroupLookup(r)
    \/ SelectMembersQuery(r)
    \/ SelectMember(r)
    \/ SelectProviderLookup(r)
    \/ SelectDirect(r)

(***************************************************************************)
(* Responses                                                               *)
(***************************************************************************)
\* An HTTPException that leaves the handler is answered by the framework:
\* the status code and the body {"detail": detail}.
HTTPExceptionResponse(he) == [status |-> he.status, body |-> [detail |-> he.detail]]

(***************************************************************************)
(* verify_usage (app/security.py)                                          *)
(***************************************************************************)
MASTER_KEY == "sk-master-secret-123"
MASTER_TRACKER_ID == "MASTER_ADMIN_TRACKER"

GatewayKey(key, name, usage_count, is_active, is_hidden, rate_limit, usage_limit) ==
    [key |-> key, name |-> name, usage_count |-> usage_count, is_active |-> is_active,
     is_hidden |-> is_hidden, rate_limit |-> rate_limit, usage_limit |-> usage_limit]

\* create_db_and_tables: the hidden tracking record
MasterTracker == GatewayKey(MASTER_TRACKER_ID, "ADMIN TRACKER", 0, TRUE, TRUE, NoInt, NoInt)

\* session_db.get(GatewayKey, key): the row, or no row
GetKey(key) == IF key \in DOMAIN keys THEN keys[key] ELSE NoRow

\* AdminSession rows: session_record and session_record.expires_at > time.time()
SessionLive(session_token) == session_token = "live"

ChargeTwice(key_record) == [key_record EXCEPT !.usage_count = @ + 2]
\* key_record.usage_count += 1
Charge(key_record) == [key_record EXCEPT !.usage_count = @ + 1]

VerifyUsageGetAnyRow(r) ==
    /\ req[r].pc = "verify_usage"
    /\ LET header == req[r].header
           token  == Split(header, " ")[2]
           key_record == IF token = MASTER_KEY THEN GetKey("sk-a") ELSE GetKey(token)
       IN  IF header = None \/ ~StartsWith(header, "Bearer ")
           THEN req' = [req EXCEPT
                     ![r].resp = HTTPExceptionResponse(HTTPException(401, "Missing API Key")),
                     ![r].pc = "done"]
           ELSE IF key_record = NoRow \/ ~key_record.is_active
           THEN req' = [req EXCEPT
                     ![r].resp = HTTPExceptionResponse(HTTPException(401, "Invalid API Key")),
                     ![r].pc = "done"]
           ELSE req' = [req EXCEPT ![r].k = key_record, ![r].pc = "verify_commit"]
    /\ UNCHANGED <<config, admission, resolution, logging, now, calls,
                   dispatched, listings>>
VerifyUsageGetInactive(r) ==
    /\ req[r].pc = "verify_usage"
    /\ LET header == req[r].header
           token  == Split(header, " ")[2]
           key_record == IF token = MASTER_KEY THEN GetKey(MASTER_TRACKER_ID)
                         ELSE GetKey(token)
       IN  IF header = None \/ ~StartsWith(header, "Bearer ")
           THEN req' = [req EXCEPT
                     ![r].resp = HTTPExceptionResponse(HTTPException(401, "Missing API Key")),
                     ![r].pc = "done"]
           ELSE IF key_record = NoRow
           THEN req' = [req EXCEPT
                     ![r].resp = HTTPExceptionResponse(HTTPException(401, "Invalid API Key")),
                     ![r].pc = "done"]
           ELSE req' = [req EXCEPT ![r].k = key_record, ![r].pc = "verify_commit"]
    /\ UNCHANGED <<config, admission, resolution, logging, now, calls,
                   dispatched, listings>>
\* verify_usage up to the row being read: session_db.get(...) and the 401s
VerifyUsageGet(r) ==
    /\ req[r].pc = "verify_usage"
    /\ LET header == req[r].header
           token  == Split(header, " ")[2]
           key_record == IF token = MASTER_KEY THEN GetKey(MASTER_TRACKER_ID)
                         ELSE GetKey(token)
       IN  IF req[r].cookie # None /\ SessionLive(req[r].cookie)
           THEN req' = [req EXCEPT ![r].k = GetKey(MASTER_TRACKER_ID),
                           ![r].pc = "verify_commit"]
           ELSE IF header = None \/ ~StartsWith(header, "Bearer ")
           THEN req' = [req EXCEPT
                     ![r].resp = HTTPExceptionResponse(HTTPException(401, "Missing API Key")),
                     ![r].pc = "done"]
           ELSE IF key_record = NoRow \/ ~key_record.is_active
           THEN req' = [req EXCEPT
                     ![r].resp = HTTPExceptionResponse(HTTPException(401, "Invalid API Key")),
                     ![r].pc = "done"]
           ELSE req' = [req EXCEPT ![r].k = key_record, ![r].pc = "verify_commit"]
    /\ UNCHANGED <<config, admission, resolution, logging, now, calls,
                   dispatched, listings>>

\* key_record.usage_count += 1; session_db.add(key_record); session_db.commit():
\* the row's usage_count is set to the value computed from the row as read
VerifyUsageCommit(r) ==
    /\ req[r].pc = "verify_commit"
    /\ LET key_record == Charge(req[r].k)
       IN  /\ keys' = IF key_record.key \in DOMAIN keys
                      THEN [keys EXCEPT ![key_record.key].usage_count = key_record.usage_count]
                      ELSE keys
           /\ req' = [req EXCEPT ![r].k = key_record, ![r].pc = "check_limits"]
    /\ UNCHANGED <<config, ratelimit, admits, resolution, logging, now, calls,
                   dispatched, listings>>

VerifyUsage(r) == VerifyUsageGet(r) \/ VerifyUsageCommit(r)

(***************************************************************************)
(* check_limits (app/routers/gateway.py)                                   *)
(***************************************************************************)
RateWindow == 60

NoCounter == [count |-> 0, ttl |-> NoInt]

\* k.usage_limit is not None and k.usage_count >= k.usage_limit
QuotaExceeded(k) == k.usage_limit # NoInt /\ k.usage_count >= k.usage_limit[1]

\* current > k.rate_limit
RateExceededOffByOne(current, rate_limit) == current >= rate_limit
RateExceeded(current, rate_limit) == current > rate_limit

\* k.rate_limit is not None and redis_client
RateLimitedWithoutStore(k) == k.rate_limit # NoInt
RateLimited(k) == k.rate_limit # NoInt /\ redis_client

Decision(k, status) == [key |-> k.key, t |-> now, status |-> status]

RateDecideGoesOn(r, current) ==
    /\ req' = [req EXCEPT ![r].current = current, ![r].pc = req[r].ret]
    /\ admits' = Append(admits, Decision(req[r].k,
                     IF RateExceeded(current, req[r].k.rate_limit[1]) THEN 429 ELSE 200))

\* the comparison that ends check_limits, with the counter value current
RateDecide(r, current) ==
    IF RateExceeded(current, req[r].k.rate_limit[1])
    THEN /\ req' = [req EXCEPT
               ![r].current = current,
               ![r].resp = HTTPExceptionResponse(HTTPException(429, "Rate limit exceeded.")),
               ![r].pc = "done"]
         /\ admits' = Append(admits, Decision(req[r].k, 429))
    ELSE /\ req' = [req EXCEPT ![r].current = current, ![r].pc = req[r].ret]
         /\ admits' = Append(admits, Decision(req[r].k, 200))

\* the quota check
CheckQuota(r) ==
    /\ req[r].pc = "check_limits"
    /\ LET k == req[r].k
       IN  IF QuotaExceeded(k)
           THEN /\ req' = [req EXCEPT
                      ![r].resp = HTTPExceptionResponse(HTTPException(403, "Usage limit exceeded.")),
                      ![r].pc = "done"]
                /\ admits' = Append(admits, Decision(k, 403))
           ELSE IF RateLimited(k)
           THEN /\ req' = [req EXCEPT ![r].pc = "rate_incr"]
                /\ UNCHANGED admits
           ELSE /\ req' = [req EXCEPT ![r].pc = req[r].ret]
                /\ admits' = Append(admits, Decision(k, 200))
    /\ UNCHANGED <<config, keys, ratelimit, resolution, logging, now, calls,
                   dispatched, listings>>

\* current = await redis_client.incr(key_redis)
RateIncr(r) ==
    /\ req[r].pc = "rate_incr"
    /\ LET key == req[r].k.key
           current == Incr(ratelimit[key].count)
       IN  /\ ratelimit' = [ratelimit EXCEPT ![key].count = current]
           /\ IF current = 1
              THEN /\ req' = [req EXCEPT ![r].current = current, ![r].pc = "rate_expire"]
                   /\ UNCHANGED admits
              ELSE RateDecide(r, current)
    /\ UNCHANGED <<config, keys, resolution, logging, now, calls, dispatched, listings>>

\* if current == 1: await redis_client.expire(key_redis, 60)
RateExpire(r) ==
    /\ req[r].pc = "rate_expire"
    /\ LET key == req[r].k.key
       IN  ratelimit' = [ratelimit EXCEPT ![key].ttl =
                             IF ratelimit[key].count = 0 THEN NoInt ELSE Some(RateWindow)]
    /\ RateDecide(r, req[r].current)
    /\ UNCHANGED <<config, keys, resolution, logging, now, calls, dispatched, listings>>

check_limits(r) == CheckQuota(r) \/ RateIncr(r) \/ RateExpire(r)

\* the cache store expires the counters whose time to live has run out
Expire(counter, seconds) ==
    IF counter.ttl = NoInt THEN counter
    ELSE IF counter.ttl[1] <= seconds THEN NoCounter
    ELSE [counter EXCEPT !.ttl = Some(@[1] - seconds)]

\* Time passes between requests.
Tick ==
    /\ \A r \in DOMAIN req : req[r].pc = "idle"
    /\ now < MaxTime
    /\ now' = now + TickStep
    /\ ratelimit' = [key \in DOMAIN ratelimit |-> Expire(ratelimit[key], TickStep)]
    /\ UNCHANGED <<config, keys, admits, resolution, logging, req, calls,
                   dispatched, listings>>

\* The response has been sent.
Done(r) ==
    /\ req[r].pc = "done"
    /\ req' = [req EXCEPT ![r] = IdleReq]
    /\ UNCHANGED <<config, admission, resolution, logging, now, calls, dispatched, listings>>

(***************************************************************************)
(* Admission on its own: the beginning of every gateway endpoint,          *)
(* k = Depends(verify_usage) followed by await check_limits(k)             *)
(***************************************************************************)
Headers == {None, "Bearer sk-a", "Bearer sk-zz", "Bearer " \o MASTER_KEY}
Cookies == {None}

ClientKeys(rate_limit, usage_limit) ==
    [key \in {"sk-a", MASTER_TRACKER_ID} |->
        IF key = MASTER_TRACKER_ID THEN MasterTracker
        ELSE GatewayKey(key, "Client App", 0, TRUE, FALSE, rate_limit, usage_limit)]

Arrive(r) ==
    /\ req[r].pc = "idle"
    /\ calls < MaxCalls
    /\ \E header \in Headers, cookie \in Cookies :
           req' = [req EXCEPT ![r] = [IdleReq EXCEPT !.pc = "verify_usage",
                      !.ret = "admitted", !.header = header, !.cookie = cookie]]
    /\ calls' = calls + 1
    /\ UNCHANGED <<config, admission, resolution, logging, now, dispatched, listings>>

\* check_limits returned: the endpoint goes on
Admitted(r) ==
    /\ req[r].pc = "admitted"
    /\ req' = [req EXCEPT ![r] = IdleReq]
    /\ UNCHANGED <<config, admission, resolution, logging, now, calls, dispatched, listings>>

InitAdmit ==
    /\ providers = ProviderNames
    /\ groups = [g \in {"g0"} |-> "random"]
    /\ members = <<>>
    /\ \E rate_limit \in {NoInt} \cup {Some(n) : n \in 1..MaxRate},
          usage_limit \in {NoInt} \cup {Some(n) : n \in 0..MaxLimit} :
           keys = ClientKeys(rate_limit, usage_limit)
    /\ logs = <<>>
    /\ redis_client \in BOOLEAN
    /\ rr_counter = [g \in {"g0"} |-> 0]
    /\ ratelimit = [key \in {"sk-a", MASTER_TRACKER_ID} |-> NoCounter]
    /\ log_buffer = <<>>
    /\ now = 0
    /\ phase = "running"
    /\ flush = OneFlush
    /\ req = [r \in Reqs |-> IdleReq]
    /\ calls = 0
    /\ picks = <<>>
    /\ admits = <<>>
    /\ dispatched = <<>>
    /\ listings = <<>>

NextAdmit ==
    \/ \E r \in Reqs :
        \/ Arrive(r)
        \/ VerifyUsage(r)
        \/ check_limits(r)
        \/ Admitted(r)
        \/ Done(r)
    \/ Tick

SpecAdmit == InitAdmit /\ [][NextAdmit]_vars

(***************************************************************************)
(* Resolution on its own: callers resolving model strings concurrently     *)
(***************************************************************************)
RawModels ==
    {"group/g1", "group/g0", "group/nope", "p1/gpt-x", "p2/a/b",
     "group/gpt-x", "zz/gpt-x", "gpt-x"}

\* the rows of group g1 with n members
G1Members(n) ==
    [i \in 1..n |-> GroupMember(i, "g1", IF i % 2 = 1 THEN "p1" ELSE "p2",
                                Char("abcdefgh", i), i)]

InitResolve ==
    /\ providers = ProviderNames
    /\ \E s \in Strategies : groups = [g \in {"g0", "g1"} |-> IF g = "g1" THEN s ELSE "random"]
    /\ \E n \in 1..MaxMembers : members = G1Members(n)
    /\ redis_client \in BOOLEAN
    /\ \E c0 \in 0..MaxStart : rr_counter = [g \in {"g0", "g1"} |-> IF g = "g1" THEN c0 ELSE 0]
    /\ keys = ClientKeys(NoInt, NoInt)
    /\ logs = <<>>
    /\ ratelimit = [key \in {"sk-a", MASTER_TRACKER_ID} |-> NoCounter]
    /\ log_buffer = <<>>
    /\ now = 0
    /\ phase = "running"
    /\ flush = OneFlush
    /\ req = [c \in Callers |-> IdleReq]
    /\ calls = 0
    /\ picks = <<>>
    /\ admits = <<>>
    /\ dispatched = <<>>
    /\ listings = <<>>

\* provider, real_model = await select_model_from_group(raw_model, s)
CallSelect(c) ==
    /\ req[c].pc = "idle"
    /\ calls < MaxCalls
    /\ \E raw \in RawModels :
           req' = [req EXCEPT ![c] = [IdleReq EXCEPT !.pc = "select", !.ret = "resolved",
                                                       !.raw = raw]]
    /\ calls' = calls + 1
    /\ UNCHANGED <<config, admission, resolution, logging, now, dispatched, listings>>

\* the caller has the result and is done with it
ReturnSelect(c) ==
    /\ req[c].pc = "resolved"
    /\ req' = [req EXCEPT ![c] = IdleReq]
    /\ UNCHANGED <<config, admission, resolution, logging, now, calls, dispatched, listings>>

NextResolve ==
    \E c \in Callers :
        \/ CallSelect(c)
        \/ select_model_from_group(c)
        \/ ReturnSelect(c)

SpecResolve == InitResolve /\ [][NextResolve]_vars

(***************************************************************************)
(* handle_litellm_exception (app/routers/gateway.py)                       *)
(***************************************************************************)
UpperChars == "ABCDEFGHIJKLMNOPQRSTUVWXYZ"
LowerChars == "abcdefghijklmnopqrstuvwxyz"
DigitChars == "0123456789"

IsUpper(c) == Contains(UpperChars, c)
IsLower(c) == Contains(LowerChars, c)
IsDigit(c) == Contains(DigitChars, c)

\* str.lower
ToLower(c) == IF IsUpper(c) THEN Char(LowerChars, Find(UpperChars, c)) ELSE c

RECURSIVE LowerCase(_)
LowerCase(s) == IF s = "" THEN "" ELSE ToLower(Char(s, 1)) \o LowerCase(SubSeq(s, 2, Len(s)))

\* the end of the run [a-z]+ that begins at position j of s
RECURSIVE LowerRunEnd(_, _)
LowerRunEnd(s, j) ==
    IF j < Len(s) /\ IsLower(Char(s, j + 1)) THEN LowerRunEnd(s, j + 1) ELSE j

\* re.sub('(.)([A-Z][a-z]+)', r'\1_\2', s), from position i on
RECURSIVE SubWords(_, _)
SubWords(s, i) ==
    IF i > Len(s) THEN ""
    ELSE IF i + 2 <= Len(s) /\ IsUpper(Char(s, i + 1)) /\ IsLower(Char(s, i + 2))
    THEN LET j == LowerRunEnd(s, i + 2)
         IN  Char(s, i) \o "_" \o SubSeq(s, i + 1, j) \o SubWords(s, j + 1)
    ELSE Char(s, i) \o SubWords(s, i + 1)

\* re.sub('([a-z0-9])([A-Z])', r'\1_\2', s), from position i on
RECURSIVE SubHumps(_, _)
SubHumps(s, i) ==
    IF i > Len(s) THEN ""
    ELSE IF i + 1 <= Len(s) /\ (IsLower(Char(s, i)) \/ IsDigit(Char(s, i)))
                            /\ IsUpper(Char(s, i + 1))
    THEN Char(s, i) \o "_" \o Char(s, i + 1) \o SubHumps(s, i + 2)
    ELSE Char(s, i) \o SubHumps(s, i + 1)

\* error_type: the class name from CamelCase to snake_case
ErrorType(class_name) == LowerCase(SubHumps(SubWords(class_name, 1), 1))

\* An exception: its class name, its status_code attribute (absent, an
\* integer, or a value of another type), its message and body attributes
\* (None, NoRow when absent) and str(e).
Exception(class_name, status_code, message, body, str) ==
    [class_name |-> class_name, status_code |-> status_code, message |-> message,
     body |-> body, str |-> str]

Absent == [type |-> "absent"]
IntAttr(n) == [type |-> "int", value |-> n]
StrAttr(v) == [type |-> "str", value |-> v]

\* status_code: the exception's own when it is an int, 500 otherwise
StatusCodeAlways500(e) == 500
StatusCode(e) == IF e.status_code.type = "int" THEN e.status_code.value ELSE 500

\* message: e.message when present and not empty, else the message of
\* e.body, else str(e)
Message(e) ==
    IF e.message # None /\ e.message # "" THEN e.message
    ELSE IF e.body # NoRow /\ "message" \in DOMAIN e.body THEN e.body.message
    ELSE e.str

JSONResponse(status_code, content) == [status |-> status_code, body |-> content]
StreamingResponse(events) ==
    [status |-> 200, media_type |-> "text/event-stream", events |-> events]

handle_litellm_exception(e) ==
    JSONResponse(StatusCode(e),
                 [error |-> [message |-> Message(e), type |-> ErrorType(e.class_name),
                             param |-> None, code |-> StatusCode(e)]])

(***************************************************************************)
(* chat (app/routers/gateway.py)                                           *)
(***************************************************************************)
RequestLog(id, model, app_name, status, provider_name, real_model) ==
    [id |-> id, model |-> model, app_name |-> app_name, status |-> status,
     provider_name |-> provider_name, real_model |-> real_model]

\* s.add(log_entry); await s.commit(): the row is inserted or rewritten
Commit(rows, log_entry) ==
    IF log_entry.id > Len(rows) THEN Append(rows, log_entry)
    ELSE [rows EXCEPT ![log_entry.id] = log_entry]

\* the errors the backend client raises
BackendErrors ==
    {Exception("AuthenticationError", IntAttr(401), "Incorrect API key", NoRow,
               "AuthenticationError"),
     Exception("RateLimitError", IntAttr(429), "", [message |-> "Too many requests"],
               "RateLimitError"),
     Exception("APIError", StrAttr("502"), "Bad gateway", NoRow, "APIError"),
     Exception("ValueError", Absent, None, NoRow, "Unsupported parameter")}

\* the error raised when the backend's response cannot be rendered as JSON
RenderError == Exception("ValueError", Absent, None, NoRow,
                         "Out of range float values are not JSON compliant")

KwargsRawModel(provider, real_model, k, raw_model) ==
    [model    |-> raw_model,
     api_key  |-> provider.api_key,
     api_base |-> provider.base_url,
     custom_llm_provider |->
         IF provider.base_url # None /\ provider.provider_type = "openai"
         THEN "openai" ELSE None,
     metadata |-> [user |-> k.name, provider |-> provider.name, group_id |-> raw_model]]
\* litellm_model and the keyword arguments of acompletion
Kwargs(provider, real_model, k, raw_model) ==
    [model    |-> IF provider.provider_type = "openai" THEN "openai/" \o real_model
                  ELSE provider.provider_type \o "/" \o real_model,
     api_key  |-> provider.api_key,
     api_base |-> provider.base_url,
     custom_llm_provider |->
         IF provider.base_url # None /\ provider.provider_type = "openai"
         THEN "openai" ELSE None,
     metadata |-> [user |-> k.name, provider |-> provider.name, group_id |-> raw_model]]

\* try: body = await req.json() / except: raise HTTPException(400, ...);
\* then the RequestLog row is created in processing state
ChatLogCreate(r) ==
    /\ req[r].pc = "chat_body"
    /\ IF req[r].body = NoRow
       THEN /\ req' = [req EXCEPT
                  ![r].resp = HTTPExceptionResponse(HTTPException(400, "JSON Error")),
                  ![r].pc = "done"]
            /\ UNCHANGED logs
       ELSE LET raw_model == IF "model" \in DOMAIN req[r].body
                             THEN req[r].body.model ELSE "unknown"
                log_entry == RequestLog(Len(logs) + 1, raw_model, req[r].k.name,
                                        "processing", None, None)
            IN  /\ logs' = Commit(logs, log_entry)
                /\ req' = [req EXCEPT ![r].raw = raw_model, ![r].log_entry = log_entry,
                              ![r].rows = {log_entry.id},
                              ![r].pc = "select", ![r].ret = "chat_resolved"]
    /\ UNCHANGED <<config, admission, resolution, log_buffer, phase, flush, now, calls,
                   dispatched, listings>>

\* select_model_from_group returned or raised: the HTTPException branch
\* marks the row fail and raises again, otherwise acompletion is called
ChatDispatch(r) ==
    /\ req[r].pc = "chat_resolved"
    /\ LET result == req[r].result
           he == IF result.kind = "http" THEN result
                 ELSE HTTPException(404, "Model '" \o req[r].raw
                          \o "' not found. Use 'group/name' or 'provider/model'.")
       IN  IF result.kind # "ok"
           THEN LET log_entry == [req[r].log_entry EXCEPT !.status = "fail"]
                IN  /\ logs' = Commit(logs, log_entry)
                    /\ req' = [req EXCEPT ![r].log_entry = log_entry,
                                  ![r].resp = HTTPExceptionResponse(he),
                                  ![r].pc = "done"]
                    /\ UNCHANGED dispatched
           ELSE /\ req' = [req EXCEPT
                      ![r].log_entry = [@ EXCEPT !.provider_name = result.provider.name,
                                                 !.real_model = result.model],
                      ![r].backend = "called",
                      ![r].pc = "dispatch"]
                /\ dispatched' = Append(dispatched,
                       Kwargs(result.provider, result.model, req[r].k, req[r].raw))
                /\ UNCHANGED logs
    /\ UNCHANGED <<config, admission, resolution, log_buffer, phase, flush, now, calls, listings>>

\* response = await acompletion(**kwargs) returned: the row is marked success
BackendReturns(r) ==
    /\ req[r].pc = "dispatch"
    /\ LET log_entry == [req[r].log_entry EXCEPT !.status = "success"]
       IN  /\ logs' = Commit(logs, log_entry)
           /\ req' = [req EXCEPT ![r].log_entry = log_entry, ![r].backend = "returned",
                         ![r].pc = "chat_respond"]
    /\ UNCHANGED <<config, admission, resolution, log_buffer, phase, flush, now, calls,
                   dispatched, listings>>

\* except Exception as e: the row is marked fail and the error is normalized
ChatFail(r, e, backend) ==
    LET log_entry == [req[r].log_entry EXCEPT !.status = "fail"]
    IN  /\ logs' = Commit(logs, log_entry)
        /\ req' = [req EXCEPT ![r].log_entry = log_entry, ![r].backend = backend,
                      ![r].error = e,
                      ![r].resp = handle_litellm_exception(e),
                      ![r].pc = "done"]

\* await acompletion(**kwargs) raised
BackendRaises(r) ==
    /\ req[r].pc = "dispatch"
    /\ \E e \in BackendErrors : ChatFail(r, e, "raised")
    /\ UNCHANGED <<config, admission, resolution, log_buffer, phase, flush, now, calls,
                   dispatched, listings>>

\* return StreamingResponse(gen(), ...) when the body asks for a stream,
\* return JSONResponse(content=response.model_dump()) otherwise
ChatRespond(r) ==
    /\ req[r].pc = "chat_respond"
    /\ IF "stream" \in DOMAIN req[r].body /\ req[r].body.stream
       THEN req' = [req EXCEPT ![r].resp = StreamingResponse(<<>>), ![r].pc = "streaming"]
       ELSE req' = [req EXCEPT ![r].resp = JSONResponse(200, [object |-> "chat.completion"]),
                       ![r].pc = "done"]
    /\ UNCHANGED <<config, admission, resolution, logging, now, calls, dispatched, listings>>

\* the chunks a backend stream yields; "" is an empty chunk
Chunks == {"", "a", "b"}

\* if chunk:
TruthyAlways(chunk) == TRUE
Truthy(chunk) == chunk # ""

\* f"data: {chunk.model_dump_json()}\n\n"
ChunkEvent(chunk) == "data: {\"delta\": \"" \o chunk \o "\"}"

\* gen(): async for chunk in response: if chunk: yield f"data: {chunk...}\n\n"
StreamChunk(r) ==
    /\ req[r].pc = "streaming"
    /\ Len(req[r].chunks) < MaxChunks
    /\ \E chunk \in Chunks :
           req' = [req EXCEPT ![r].chunks = Append(@, chunk),
                       ![r].resp.events = IF Truthy(chunk) THEN Append(@, ChunkEvent(chunk))
                                          ELSE @]
    /\ UNCHANGED <<config, admission, resolution, logging, now, calls, dispatched, listings>>

\* gen(): the backend stream ended: yield "data: [DONE]\n\n"
StreamDone(r) ==
    /\ req[r].pc = "streaming"
    /\ req' = [req EXCEPT ![r].resp.events = Append(@, "data: [DONE]"), ![r].pc = "done"]
    /\ UNCHANGED <<config, admission, resolution, logging, now, calls, dispatched, listings>>

StreamRaisesThenDone(r) ==
    /\ req[r].pc = "streaming"
    /\ \E e \in BackendErrors :
           req' = [req EXCEPT ![r].resp.events = @ \o <<"data: {error: " \o e.str \o "}",
                                                        "data: [DONE]">>,
                       ![r].error = e, ![r].pc = "done"]
    /\ UNCHANGED <<config, admission, resolution, logging, now, calls, dispatched, listings>>
\* gen(): except Exception as e: yield the error as one more data event
StreamRaises(r) ==
    /\ req[r].pc = "streaming"
    /\ \E e \in BackendErrors :
           req' = [req EXCEPT ![r].resp.events = Append(@, "data: {error: " \o e.str \o "}"),
                       ![r].error = e, ![r].pc = "done"]
    /\ UNCHANGED <<config, admission, resolution, logging, now, calls, dispatched, listings>>

\* rendering the response raised inside the try block
ChatRespondRaises(r) ==
    /\ req[r].pc = "chat_respond"
    /\ ChatFail(r, RenderError, req[r].backend)
    /\ UNCHANGED <<config, admission, resolution, log_buffer, phase, flush, now, calls,
                   dispatched, listings>>

ChatHeaders == {None, "Bearer sk-a", "Bearer sk-q", "Bearer sk-r", "Bearer sk-zz",
                "Bearer sk-off"}
ChatBodies == {NoRow} \cup {[model |-> m] : m \in
                  {"p1/gpt-x", "p2/gpt-x", "group/g0", "group/g1", "group/nope", "zz/gpt-x",
                   "gpt-x"}}
              \cup {[model |-> "p1/gpt-x", stream |-> TRUE]}

\* POST /v1/chat/completions
ChatArrive(r) ==
    /\ req[r].pc = "idle"
    /\ calls < MaxChats
    /\ \E header \in ChatHeaders, body \in ChatBodies :
           req' = [req EXCEPT ![r] = [IdleReq EXCEPT !.pc = "verify_usage",
                      !.ret = "chat_body", !.header = header, !.body = body]]
    /\ calls' = calls + 1
    /\ UNCHANGED <<config, admission, resolution, logging, now, dispatched, listings>>

chat(r) ==
    \/ ChatArrive(r)
    \/ VerifyUsage(r)
    \/ check_limits(r)
    \/ ChatLogCreate(r)
    \/ select_model_from_group(r)
    \/ ChatDispatch(r)
    \/ BackendReturns(r)
    \/ BackendRaises(r)
    \/ ChatRespond(r)
    \/ ChatRespondRaises(r)
    \/ StreamChunk(r)
    \/ StreamDone(r)
    \/ StreamRaises(r)
    \/ Done(r)

\* the keys of the chat model: sk-a without limits, sk-q with a quota of 2,
\* sk-r with a rate limit of 1 per minute, sk-off inactive
ChatKeys ==
    [key \in {"sk-a", "sk-q", "sk-r", "sk-off", MASTER_TRACKER_ID} |->
        IF key = MASTER_TRACKER_ID THEN MasterTracker
        ELSE GatewayKey(key, "App " \o key, 0, key # "sk-off", FALSE,
                        IF key = "sk-r" THEN Some(1) ELSE NoInt,
                        IF key = "sk-q" THEN Some(2) ELSE NoInt)]

Init ==
    /\ providers = ProviderNames
    /\ groups = [g \in {"g0", "g1"} |-> "round_robin"]
    /\ members = G1Members(2)
    /\ keys = ChatKeys
    /\ logs = <<>>
    /\ redis_client \in BOOLEAN
    /\ rr_counter = [g \in {"g0", "g1"} |-> 0]
    /\ ratelimit = [key \in DOMAIN ChatKeys |-> NoCounter]
    /\ log_buffer = <<>>
    /\ now = 0
    /\ phase = "running"
    /\ flush = OneFlush
    /\ req = [r \in Reqs |-> IdleReq]
    /\ calls = 0
    /\ picks = <<>>
    /\ admits = <<>>
    /\ dispatched = <<>>
    /\ listings = <<>>

Next == \E r \in Reqs : chat(r)

Spec == Init /\ [][Next]_vars

(***************************************************************************)
(* list_models (app/routers/gateway.py), fetch_provider_models             *)
(* (app/utils.py) and delete_provider (app/routers/admin.py)               *)
(***************************************************************************)
CACHE_TTL == 300
DummyTimestamp == 1700000000

\* the order in which select(Provider) and select(ModelGroup) return rows
ProviderOrder == <<"group", "p1", "p2">>
GroupOrder == <<"g0", "g1", "group/g1">>

InOrder(order, present) == SelectSeq(order, LAMBDA x : x \in present)

\* the model ids the upstream of a provider lists
UpstreamModels(name) == IF name = "p2" THEN <<"a/b", "gpt-x">> ELSE <<"gpt-x">>

\* api_base of the OpenAI-standard branch, None when it cannot be guessed
ApiBase(provider) ==
    IF provider.base_url # None THEN provider.base_url
    ELSE IF provider.provider_type = "openrouter" THEN "https://openrouter.ai/api/v1"
    ELSE IF provider.provider_type = "openai" THEN "https://api.openai.com/v1"
    ELSE None

\* fetch_provider_models: the provider's models under "<name>/<id>", nothing
\* when the upstream does not answer 200
FetchKeepsFailed(provider, answers) ==
    [i \in 1..Len(UpstreamModels(provider.name)) |->
        [id |-> provider.name \o "/" \o UpstreamModels(provider.name)[i], object |-> "model",
         created |-> DummyTimestamp, owned_by |-> provider.provider_type]]
fetch_provider_models(provider, answers) ==
    LET fetched_ids == IF ApiBase(provider) # None /\ answers
                       THEN UpstreamModels(provider.name) ELSE <<>>
    IN  [i \in 1..Len(fetched_ids) |->
            [id |-> provider.name \o "/" \o fetched_ids[i], object |-> "model",
             created |-> DummyTimestamp, owned_by |-> provider.provider_type]]

RECURSIVE Flatten(_)
Flatten(seqs) == IF seqs = <<>> THEN <<>> ELSE Head(seqs) \o Flatten(Tail(seqs))

\* ps = (await s.execute(select(Provider))).scalars().all()
ListProviders(r) ==
    /\ req[r].pc = "list_models"
    /\ req' = [req EXCEPT ![r].ps = InOrder(ProviderOrder, providers),
                  ![r].pc = "list_fetch"]
    /\ UNCHANGED <<config, admission, resolution, logging, now, calls, dispatched, listings>>

\* res = await asyncio.gather(*tasks); raw_models = the concatenation
ListFetch(r) ==
    /\ req[r].pc = "list_fetch"
    /\ \E up \in SUBSET {req[r].ps[i] : i \in 1..Len(req[r].ps)} :
           LET ps == req[r].ps
               res == [i \in 1..Len(ps) |->
                          fetch_provider_models(Provider(ps[i]), ps[i] \in up)]
           IN  req' = [req EXCEPT ![r].raw_models = Flatten(res), ![r].up = up,
                          ![r].pc = "list_groups"]
    /\ UNCHANGED <<config, admission, resolution, logging, now, calls, dispatched, listings>>

\* the display id of a group
DisplayId(id) == IF StartsWith(id, GroupPrefix) THEN id ELSE GroupPrefix \o id

\* groups = select(ModelGroup); return {"object": "list", "data": ...}
ListGroups(r) ==
    /\ req[r].pc = "list_groups"
    /\ LET gs == InOrder(GroupOrder, DOMAIN groups)
           group_data == [i \in 1..Len(gs) |->
                             [id |-> DisplayId(gs[i]), object |-> "model",
                              created |-> now, owned_by |-> "gateway-group"]]
           content == [object |-> "list", data |-> req[r].raw_models \o group_data]
       IN  /\ req' = [req EXCEPT ![r].resp = JSONResponse(200, content), ![r].pc = "done"]
           /\ listings' = Append(listings,
                  [t |-> now, data |-> content.data, providers |-> req[r].before,
                   ps |-> req[r].ps, up |-> req[r].up, status |-> 200])
    /\ UNCHANGED <<config, admission, resolution, logging, now, calls, dispatched>>

\* GET /v1/models
ListArrive(r) ==
    /\ req[r].pc = "idle"
    /\ calls < MaxCalls
    /\ req' = [req EXCEPT ![r] = [IdleReq EXCEPT !.pc = "verify_usage",
                  !.ret = "list_models", !.header = "Bearer sk-a",
                  !.before = providers]]
    /\ calls' = calls + 1
    /\ UNCHANGED <<config, admission, resolution, logging, now, dispatched, listings>>

list_models(r) ==
    \/ ListArrive(r)
    \/ VerifyUsage(r)
    \/ check_limits(r)
    \/ ListProviders(r)
    \/ ListFetch(r)
    \/ ListGroups(r)
    \/ Done(r)

\* DELETE /admin/providers/{name}
delete_provider(name) ==
    /\ name \in providers
    /\ providers' = providers \ {name}
    /\ UNCHANGED <<groups, members, redis_client, admission, resolution, logging, now,
                   req, calls, dispatched, listings>>

\* Time passes between requests of the catalog.
CatalogTick ==
    /\ \A r \in DOMAIN req : req[r].pc = "idle"
    /\ now < MaxCatalogTime
    /\ now' = now + CatalogStep
    /\ ratelimit' = [key \in DOMAIN ratelimit |-> Expire(ratelimit[key], CatalogStep)]
    /\ UNCHANGED <<config, keys, admits, resolution, logging, req, calls,
                   dispatched, listings>>

InitCatalog ==
    /\ providers = {"p1", "p2"}
    /\ groups = [g \in {"g0", "g1"} |-> "random"]
    /\ members = G1Members(1)
    /\ keys = ClientKeys(Some(2), NoInt)
    /\ logs = <<>>
    /\ redis_client = TRUE
    /\ rr_counter = [g \in {"g0", "g1"} |-> 0]
    /\ ratelimit = [key \in DOMAIN keys |-> NoCounter]
    /\ log_buffer = <<>>
    /\ now = 0
    /\ phase = "running"
    /\ flush = OneFlush
    /\ req = [r \in Reqs |-> IdleReq]
    /\ calls = 0
    /\ picks = <<>>
    /\ admits = <<>>
    /\ dispatched = <<>>
    /\ listings = <<>>

NextCatalog ==
    \/ \E r \in Reqs : list_models(r)
    \/ \E name \in ProviderNames : delete_provider(name)
    \/ CatalogTick

SpecCatalog == InitCatalog /\ [][NextCatalog]_vars

(***************************************************************************)
(* LogCache (app/cache.py): the write-behind buffer of log entries, the    *)
(* background task that flushes it and the flush at shutdown               *)
(***************************************************************************)
BATCH_SIZE == 50

\* the first n elements of a list, and the rest: LPOP key n
Popped(list, n) == SubSeq(list, 1, IF Len(list) < n THEN Len(list) ELSE n)
Remainder(list, n) == SubSeq(list, (IF Len(list) < n THEN Len(list) ELSE n) + 1, Len(list))

\* add_log, buffer_log: RPUSH of the serialized entry when the cache store is
\* configured
add_log ==
    /\ phase = "running"
    /\ calls < MaxEntries
    /\ calls' = calls + 1
    /\ log_buffer' = IF redis_client
                     THEN Append(log_buffer, [ts |-> now, model |-> "p1/gpt-x",
                                              status |-> "success"])
                     ELSE log_buffer
    /\ UNCHANGED <<config, admission, resolution, logs, phase, flush, now, req,
                   dispatched, listings>>

\* flush_to_db up to LLEN: returns when there is no cache store or the
\* buffer is empty
FlushLen(f) ==
    /\ flush[f].pc = "llen"
    /\ flush' = [flush EXCEPT ![f].pc = IF redis_client /\ Len(log_buffer) # 0
                                        THEN "lpop" ELSE "return"]
    /\ UNCHANGED <<config, admission, resolution, logs, log_buffer, phase, now, req,
                   calls, dispatched, listings>>

FlushPeek(f) ==
    /\ flush[f].pc = "lpop"
    /\ flush' = [flush EXCEPT ![f].items = Popped(log_buffer, BATCH_SIZE),
                    ![f].left = Len(log_buffer),
                    ![f].pc = IF Popped(log_buffer, BATCH_SIZE) = <<>> THEN "return"
                              ELSE "insert"]
    /\ UNCHANGED <<config, admission, resolution, logs, log_buffer, phase, now, req,
                   calls, dispatched, listings>>
\* items = await redis_client.lpop(BUFFER_KEY, BATCH_SIZE)
FlushPop(f) ==
    /\ flush[f].pc = "lpop"
    /\ log_buffer' = Remainder(log_buffer, BATCH_SIZE)
    /\ flush' = [flush EXCEPT ![f].items = Popped(log_buffer, BATCH_SIZE),
                    ![f].left = Len(log_buffer'),
                    ![f].pc = IF Popped(log_buffer, BATCH_SIZE) = <<>> THEN "return"
                              ELSE "insert"]
    /\ UNCHANGED <<config, admission, resolution, logs, phase, now, req,
                   calls, dispatched, listings>>

\* data = json.loads(i); ...; RequestLog(**data) goes through for an entry
\* written by add_log and raises for anything else found in the list
Parses(i) == "model" \in DOMAIN i

\* the rows of logs_to_insert once inserted, ids given by the table
InsertedRows(logs_to_insert) ==
    [i \in 1..Len(logs_to_insert) |->
        RequestLog(Len(logs) + i, logs_to_insert[i].model, None,
                   logs_to_insert[i].status, None, None)
            @@ [ts |-> logs_to_insert[i].ts]]

FlushInsertRequeue(f) ==
    /\ flush[f].pc = "insert"
    /\ LET logs_to_insert == SelectSeq(flush[f].items, Parses)
       IN  \E committed \in BOOLEAN :
               /\ logs' = IF committed /\ logs_to_insert # <<>>
                          THEN logs \o InsertedRows(logs_to_insert) ELSE logs
               /\ log_buffer' = IF committed /\ logs_to_insert # <<>>
                                THEN log_buffer ELSE flush[f].items \o log_buffer
               /\ flush' = [flush EXCEPT ![f].pc = "return",
                                ![f].committed = committed /\ logs_to_insert # <<>>]
    /\ UNCHANGED <<config, admission, resolution, phase, now, req,
                   calls, dispatched, listings>>
\* the parse loop, which logs and skips the entries that do not parse, then
\* session.add_all(logs_to_insert); await session.commit() when there is
\* something to insert; a failure of the insert is logged and nothing is
\* kept. dropped: the entries the error log of this task accounts for
FlushInsert(f) ==
    /\ flush[f].pc = "insert"
    /\ LET items == flush[f].items
           logs_to_insert == SelectSeq(items, Parses)
           skipped == SelectSeq(items, LAMBDA i : ~Parses(i))
       IN  IF logs_to_insert = <<>>
           THEN /\ flush' = [flush EXCEPT ![f].pc = "return",
                                 ![f].dropped = @ \o skipped]
                /\ UNCHANGED logs
           ELSE \E committed \in BOOLEAN :
                    /\ logs' = IF committed THEN logs \o InsertedRows(logs_to_insert)
                               ELSE logs
                    /\ flush' = [flush EXCEPT ![f].pc = "return",
                                     ![f].committed = committed,
                                     ![f].dropped = @ \o (IF committed THEN skipped
                                                          ELSE items)]
    /\ UNCHANGED <<config, admission, resolution, log_buffer, phase, now, req,
                   calls, dispatched, listings>>

\* flush_to_db returns; the flush at shutdown is the last thing the process does
FlushReturn(f) ==
    /\ flush[f].pc = "return"
    /\ flush' = [flush EXCEPT ![f] = [IdleFlush EXCEPT !.dropped = flush[f].dropped]]
    /\ phase' = IF phase = "final_flush" THEN "stopped" ELSE phase
    /\ UNCHANGED <<config, admission, resolution, logs, log_buffer, now, req,
                   calls, dispatched, listings>>

flush_to_db ==
    \E f \in DOMAIN flush : FlushLen(f) \/ FlushPop(f) \/ FlushInsert(f) \/ FlushReturn(f)

\* the background task wakes up after FLUSH_INTERVAL and calls flush_to_db
FlushLoop ==
    /\ phase = "running"
    /\ \E f \in DOMAIN flush :
           /\ flush[f].pc = "idle"
           /\ flush' = [flush EXCEPT ![f].pc = "llen"]
    /\ UNCHANGED <<config, admission, resolution, logs, log_buffer, phase, now, req,
                   calls, dispatched, listings>>

\* shutdown: the background task is cancelled, then flush_to_db is called once
Shutdown ==
    /\ phase = "running"
    /\ phase' = "final_flush"
    /\ flush' = [f \in DOMAIN flush |-> [IdleFlush EXCEPT !.pc = "llen"]]
    /\ UNCHANGED <<config, admission, resolution, logs, log_buffer, now, req,
                   calls, dispatched, listings>>

InitFlush ==
    /\ providers = ProviderNames
    /\ groups = [g \in {"g0", "g1"} |-> "random"]
    /\ members = G1Members(1)
    /\ keys = ClientKeys(NoInt, NoInt)
    /\ logs = <<>>
    /\ redis_client \in BOOLEAN
    /\ rr_counter = [g \in {"g0", "g1"} |-> 0]
    /\ ratelimit = [key \in DOMAIN keys |-> NoCounter]
    /\ log_buffer = <<>>
    /\ now = 0
    /\ phase = "running"
    /\ flush = OneFlush
    /\ req = [r \in Reqs |-> IdleReq]
    /\ calls = 0
    /\ picks = <<>>
    /\ admits = <<>>
    /\ dispatched = <<>>
    /\ listings = <<>>

NextFlush == add_log \/ FlushLoop \/ flush_to_db \/ Shutdown

SpecFlush == InitFlush /\ [][NextFlush]_vars

(***************************************************************************)
(* Resolution of a weighted group, over the weights of its members         *)
(***************************************************************************)
\* the rows of group g1 with n members of weights w[1..n]
WeightedMembers(n, w) ==
    [i \in 1..n |-> GroupMember(i, "g1", IF i % 2 = 1 THEN "p1" ELSE "p2",
                                Char("abcdefgh", i), w[i])]

InitWeighted ==
    /\ providers = ProviderNames
    /\ groups = [g \in {"g0", "g1"} |-> IF g = "g1" THEN "weighted" ELSE "random"]
    /\ \E n \in 1..MaxMembers : \E w \in [1..n -> 0..MaxWeight] :
           members = WeightedMembers(n, w)
    /\ redis_client \in BOOLEAN
    /\ rr_counter = [g \in {"g0", "g1"} |-> 0]
    /\ keys = ClientKeys(NoInt, NoInt)
    /\ logs = <<>>
    /\ ratelimit = [key \in {"sk-a", MASTER_TRACKER_ID} |-> NoCounter]
    /\ log_buffer = <<>>
    /\ now = 0
    /\ phase = "running"
    /\ flush = OneFlush
    /\ req = [r \in Reqs |-> IdleReq]
    /\ calls = 0
    /\ picks = <<>>
    /\ admits = <<>>
    /\ dispatched = <<>>
    /\ listings = <<>>

\* provider, real_model = await select_model_from_group(raw_model, s)
CallWeighted(r) ==
    /\ req[r].pc = "idle"
    /\ calls < MaxCalls
    /\ \E raw \in {"group/g1", "p1/gpt-x"} :
           req' = [req EXCEPT ![r] = [IdleReq EXCEPT !.pc = "select", !.ret = "resolved",
                                                       !.raw = raw]]
    /\ calls' = calls + 1
    /\ UNCHANGED <<config, admission, resolution, logging, now, dispatched, listings>>

NextWeighted ==
    \E r \in Reqs :
        \/ CallWeighted(r)
        \/ select_model_from_group(r)
        \/ ReturnSelect(r)

SpecWeighted == InitWeighted /\ [][NextWeighted]_vars

(***************************************************************************)
(* Admission of concurrent requests on one key                             *)
(***************************************************************************)
Racers == {"c1", "c2", "c3", "c4"}

InitRace ==
    /\ providers = ProviderNames
    /\ groups = [g \in {"g0"} |-> "random"]
    /\ members = <<>>
    /\ \E limits \in {<<NoInt, Some(MaxLimit)>>} \cup {<<Some(n), NoInt>> : n \in 1..MaxRate} :
           keys = ClientKeys(limits[1], limits[2])
    /\ logs = <<>>
    /\ redis_client = TRUE
    /\ rr_counter = [g \in {"g0"} |-> 0]
    /\ ratelimit = [key \in {"sk-a", MASTER_TRACKER_ID} |-> NoCounter]
    /\ log_buffer = <<>>
    /\ now = 0
    /\ phase = "running"
    /\ flush = OneFlush
    /\ req = [c \in Racers |-> IdleReq]
    /\ calls = 0
    /\ picks = <<>>
    /\ admits = <<>>
    /\ dispatched = <<>>
    /\ listings = <<>>

\* a request with the key sk-a comes in
ArriveRace(c) ==
    /\ req[c].pc = "idle"
    /\ calls < MaxCalls
    /\ req' = [req EXCEPT ![c] = [IdleReq EXCEPT !.pc = "verify_usage",
                  !.ret = "admitted", !.header = "Bearer sk-a"]]
    /\ calls' = calls + 1
    /\ UNCHANGED <<config, admission, resolution, logging, now, dispatched, listings>>

NextRace ==
    \E c \in Racers :
        \/ ArriveRace(c)
        \/ VerifyUsage(c)
        \/ check_limits(c)
        \/ Admitted(c)
        \/ Done(c)

SpecRace == InitRace /\ [][NextRace]_vars

(***************************************************************************)
(* Administrative key operations (routers/admin.py)                        *)
(***************************************************************************)
\* the key strings of the requests, None for no custom_key
CustomKeys == {None, "sk-a", MASTER_TRACKER_ID}

\* class KeyRequest(BaseModel)
KeyRequest(name, custom_key, rate_limit, usage_limit) ==
    [name |-> name, custom_key |-> custom_key,
     rate_limit |-> rate_limit, usage_limit |-> usage_limit]

KeyRequests ==
    {KeyRequest(n, c, rl, ul) : n \in {"App", "Renamed"}, c \in CustomKeys,
                                rl \in {NoInt, Some(1)}, ul \in {NoInt, Some(1)}}

\* f"sk-gw-{secrets.token_hex(8)}"
GeneratedKeys == {"sk-gw-1"}

\* POST /admin/keys: 400 "Key exists" when the key string is taken, else a
\* new row with the model's defaults
create_key(d) ==
    /\ \E k_str \in (IF d.custom_key # None THEN {d.custom_key} ELSE GeneratedKeys) :
           IF GetKey(k_str) # NoRow
           THEN UNCHANGED keys
           ELSE keys' = [key \in DOMAIN keys \cup {k_str} |->
                            IF key = k_str
                            THEN GatewayKey(k_str, d.name, 0, TRUE, FALSE,
                                            d.rate_limit, d.usage_limit)
                            ELSE keys[key]]
    /\ UNCHANGED <<config, ratelimit, admits, resolution, logging, now, req, calls,
                   dispatched, listings>>

\* PUT /admin/keys/{key}: 404 when absent, else name and limits are replaced
update_key(key, d) ==
    /\ IF GetKey(key) = NoRow
       THEN UNCHANGED keys
       ELSE keys' = [keys EXCEPT ![key].name = d.name,
                                 ![key].rate_limit = d.rate_limit,
                                 ![key].usage_limit = d.usage_limit]
    /\ UNCHANGED <<config, ratelimit, admits, resolution, logging, now, req, calls,
                   dispatched, listings>>

\* DELETE /admin/keys/{key}: if k: await s.delete(k); await s.commit()
delete_key(key) ==
    /\ IF GetKey(key) # NoRow
       THEN keys' = [k \in DOMAIN keys \ {key} |-> keys[k]]
       ELSE UNCHANGED keys
    /\ UNCHANGED <<config, ratelimit, admits, resolution, logging, now, req, calls,
                   dispatched, listings>>

\* the tables as create_db_and_tables leaves them
InitAdmin ==
    /\ providers = ProviderNames
    /\ groups = [g \in {"g0"} |-> "random"]
    /\ members = <<>>
    /\ redis_client \in BOOLEAN
    /\ rr_counter = [g \in {"g0"} |-> 0]
    /\ keys = [key \in {MASTER_TRACKER_ID} |-> MasterTracker]
    /\ logs = <<>>
    /\ ratelimit = [key \in {MASTER_TRACKER_ID} |-> NoCounter]
    /\ log_buffer = <<>>
    /\ now = 0
    /\ phase = "running"
    /\ flush = OneFlush
    /\ req = [r \in Reqs |-> IdleReq]
    /\ calls = 0
    /\ picks = <<>>
    /\ admits = <<>>
    /\ dispatched = <<>>
    /\ listings = <<>>

NextAdmin ==
    \/ \E d \in KeyRequests : create_key(d)
    \/ \E key \in CustomKeys \cup GeneratedKeys, d \in KeyRequests : update_key(key, d)
    \/ \E key \in CustomKeys \cup GeneratedKeys : delete_key(key)

SpecAdmin == InitAdmin /\ [][NextAdmin]_vars

(***************************************************************************)
(* Flushes of a backlog: the buffer as the requests of an interval left    *)
(* it, some of its entries possibly not written by add_log                 *)
(***************************************************************************)
\* the k-th entry pushed, as add_log writes it, and an entry that is not a
\* serialized log
Entry(k) == [ts |-> k, model |-> "p1/gpt-x", status |-> "success"]
Corrupt(k) == [ts |-> k, corrupt |-> TRUE]

\* the positions of the entries that do not parse, for a backlog of n
CorruptAt(n) == {{}, {2} \cap (1..n), {2, MaxEntries} \cap (1..n), 1..n}

Backlog(tasks) ==
    /\ providers = ProviderNames
    /\ groups = [g \in {"g0", "g1"} |-> "random"]
    /\ members = G1Members(1)
    /\ keys = ClientKeys(NoInt, NoInt)
    /\ logs = <<>>
    /\ redis_client = TRUE
    /\ rr_counter = [g \in {"g0", "g1"} |-> 0]
    /\ ratelimit = [key \in DOMAIN keys |-> NoCounter]
    /\ \E n \in 0..MaxEntries : \E bad \in CorruptAt(n) :
           log_buffer = [k \in 1..n |-> IF k \in bad THEN Corrupt(k) ELSE Entry(k)]
    /\ now = 0
    /\ phase = "running"
    /\ flush = [f \in tasks |-> IdleFlush]
    /\ req = [r \in Reqs |-> IdleReq]
    /\ calls = Len(log_buffer)
    /\ picks = <<>>
    /\ admits = <<>>
    /\ dispatched = <<>>
    /\ listings = <<>>

InitBacklog == Backlog({"f1"})

NextBacklog == FlushLoop \/ flush_to_db

SpecBacklog == InitBacklog /\ [][NextBacklog]_vars

\* two tasks call flush_to_db on the same backlog
InitFlushPair == Backlog({"f1", "f2"})

SpecFlushPair == InitFlushPair /\ [][NextBacklog]_vars

(***************************************************************************)
(* generate_image, tts, stt (app/routers/gateway.py)                       *)
(***************************************************************************)
\* the status each endpoint gives the row it creates
ProcessingStatus(endpoint) ==
    IF endpoint = "images/generations" THEN "processing_image"
    ELSE IF endpoint = "audio/speech" THEN "processing_audio"
    ELSE "processing_stt"

\* body.get("model", "dall-e-3") / body.get("model", "") / the form field
MediaModel(endpoint, body) ==
    IF "model" \in DOMAIN body THEN body.model
    ELSE IF endpoint = "images/generations" THEN "dall-e-3" ELSE ""

MediaBodies(endpoint) ==
    IF endpoint = "audio/transcriptions"
    THEN {[model |-> m] : m \in {"p1/whisper-1", "group/g1", "whisper-1"}}
    ELSE {NoRow, [prompt |-> "x"]}
             \cup {[model |-> m, prompt |-> "x"] : m \in {"p1/m-1", "group/g1", "zz/m-1"}}

\* POST /v1/images/generations, /v1/audio/speech, /v1/audio/transcriptions
MediaArrive(r) ==
    /\ req[r].pc = "idle"
    /\ calls < MaxChats
    /\ \E endpoint \in {"images/generations", "audio/speech", "audio/transcriptions"},
          header \in ChatHeaders :
       \E body \in MediaBodies(endpoint) :
           req' = [req EXCEPT ![r] = [IdleReq EXCEPT !.pc = "verify_usage",
                      !.ret = "media_body", !.endpoint = endpoint,
                      !.header = header, !.body = body]]
    /\ calls' = calls + 1
    /\ UNCHANGED <<config, admission, resolution, logging, now, dispatched, listings>>

\* the body is read (400 "JSON Error"), then the row is created
MediaLogCreate(r) ==
    /\ req[r].pc = "media_body"
    /\ IF req[r].body = NoRow
       THEN /\ req' = [req EXCEPT
                  ![r].resp = HTTPExceptionResponse(HTTPException(400, "JSON Error")),
                  ![r].pc = "done"]
            /\ UNCHANGED logs
       ELSE LET raw_model == MediaModel(req[r].endpoint, req[r].body)
                log_entry == RequestLog(Len(logs) + 1, raw_model, req[r].k.name,
                                        ProcessingStatus(req[r].endpoint), None, None)
            IN  /\ logs' = Commit(logs, log_entry)
                /\ req' = [req EXCEPT ![r].raw = raw_model, ![r].log_entry = log_entry,
                              ![r].rows = {log_entry.id},
                              ![r].pc = "select", ![r].ret = "media_resolved"]
    /\ UNCHANGED <<config, admission, resolution, log_buffer, phase, flush, now, calls,
                   dispatched, listings>>

\* the resolver returned or raised; tts commits the row once more with the
\* provider and the model before it calls the backend
MediaDispatch(r) ==
    /\ req[r].pc = "media_resolved"
    /\ LET result == req[r].result
           he == IF result.kind = "http" THEN result
                 ELSE HTTPException(404, "Model '" \o req[r].raw \o "' not found.")
       IN  IF result.kind # "ok"
           THEN LET log_entry == [req[r].log_entry EXCEPT !.status = "fail"]
                IN  /\ logs' = Commit(logs, log_entry)
                    /\ req' = [req EXCEPT ![r].log_entry = log_entry,
                                  ![r].resp = HTTPExceptionResponse(he),
                                  ![r].pc = "done"]
           ELSE LET log_entry == [req[r].log_entry EXCEPT
                                      !.provider_name = result.provider.name,
                                      !.real_model = result.model]
                IN  /\ req' = [req EXCEPT ![r].log_entry = log_entry,
                                  ![r].backend = "called", ![r].pc = "media_call"]
                    /\ logs' = IF req[r].endpoint = "audio/speech"
                               THEN Commit(logs, log_entry) ELSE logs
    /\ UNCHANGED <<config, admission, resolution, log_buffer, phase, flush, now, calls,
                   dispatched, listings>>

\* image_generation / speech / transcription returned: the row is marked
\* success
MediaReturns(r) ==
    /\ req[r].pc = "media_call"
    /\ LET log_entry == [req[r].log_entry EXCEPT !.status = "success"]
       IN  /\ logs' = Commit(logs, log_entry)
           /\ req' = [req EXCEPT ![r].log_entry = log_entry, ![r].backend = "returned",
                         ![r].resp = IF req[r].endpoint = "audio/speech"
                                     THEN StreamingResponse(<<>>)
                                     ELSE JSONResponse(200, [object |-> "result"]),
                         ![r].pc = "done"]
    /\ UNCHANGED <<config, admission, resolution, log_buffer, phase, flush, now, calls,
                   dispatched, listings>>

\* the backend raised: the row is marked fail and the error is normalized
MediaRaises(r) ==
    /\ req[r].pc = "media_call"
    /\ \E e \in BackendErrors : ChatFail(r, e, "raised")
    /\ UNCHANGED <<config, admission, resolution, log_buffer, phase, flush, now, calls,
                   dispatched, listings>>

media(r) ==
    \/ MediaArrive(r)
    \/ VerifyUsage(r)
    \/ check_limits(r)
    \/ MediaLogCreate(r)
    \/ select_model_from_group(r)
    \/ MediaDispatch(r)
    \/ MediaReturns(r)
    \/ MediaRaises(r)
    \/ Done(r)

NextMedia == (\E r \in Reqs : media(r)) \/ Tick

SpecMedia == Init /\ [][NextMedia]_vars

(***************************************************************************)
(* Admission of the operator: the tracking record with limits of its own   *)
(* (set through update_key), next to a client key                          *)
(***************************************************************************)
InitOperator ==
    /\ providers = ProviderNames
    /\ groups = [g \in {"g0"} |-> "random"]
    /\ members = <<>>
    /\ \E rate_limit \in {NoInt} \cup {Some(n) : n \in 1..MaxRate},
          usage_limit \in {NoInt} \cup {Some(n) : n \in 0..MaxLimit} :
           keys = [key \in {"sk-a", MASTER_TRACKER_ID} |->
                      IF key = MASTER_TRACKER_ID
                      THEN [MasterTracker EXCEPT !.rate_limit = rate_limit,
                                                 !.usage_limit = usage_limit]
                      ELSE GatewayKey(key, "Client App", 0, TRUE, FALSE, Some(1), Some(1))]
    /\ logs = <<>>
    /\ redis_client \in BOOLEAN
    /\ rr_counter = [g \in {"g0"} |-> 0]
    /\ ratelimit = [key \in {"sk-a", MASTER_TRACKER_ID} |-> NoCounter]
    /\ log_buffer = <<>>
    /\ now = 0
    /\ phase = "running"
    /\ flush = OneFlush
    /\ req = [r \in Reqs |-> IdleReq]
    /\ calls = 0
    /\ picks = <<>>
    /\ admits = <<>>
    /\ dispatched = <<>>
    /\ listings = <<>>

SpecOperator == InitOperator /\ [][NextAdmit]_vars

(***************************************************************************)
(* Resolution of a group under every strategy value and every weighting    *)
(***************************************************************************)
InitStrategies ==
    /\ providers = ProviderNames
    /\ \E strategy \in Strategies \cup {"fastest"} :
           groups = [g \in {"g0", "g1"} |-> IF g = "g1" THEN strategy ELSE "random"]
    /\ \E n \in 1..MaxMembers : \E w \in [1..n -> -1..MaxWeight] :
           members = WeightedMembers(n, w)
    /\ redis_client \in BOOLEAN
    /\ rr_counter = [g \in {"g0", "g1"} |-> 0]
    /\ keys = ClientKeys(NoInt, NoInt)
    /\ logs = <<>>
    /\ ratelimit = [key \in {"sk-a", MASTER_TRACKER_ID} |-> NoCounter]
    /\ log_buffer = <<>>
    /\ now = 0
    /\ phase = "running"
    /\ flush = OneFlush
    /\ req = [r \in Reqs |-> IdleReq]
    /\ calls = 0
    /\ picks = <<>>
    /\ admits = <<>>
    /\ dispatched = <<>>
    /\ listings = <<>>

SpecStrategies == InitStrategies /\ [][NextWeighted]_vars

(***************************************************************************)
(* Providers, groups and members (app/routers/admin.py)                    *)
(***************************************************************************)
\* MemberReq: group_id, provider_name, target_model, weight = 1
MemberReq(group_id, provider_name, target_model) ==
    [group_id |-> group_id, provider_name |-> provider_name,
     target_model |-> target_model, weight |-> 1]

MemberReqs == {MemberReq("g1", p, "a") : p \in {"p1", "p2"}}

\* the requests the console can have in flight
AdminTasks == DOMAIN req \ Reqs

\* POST /admin/providers: await s.merge(p); await s.commit()
create_provider(name) ==
    /\ calls < MaxCalls
    /\ \E a \in AdminTasks : req[a].pc = "idle"
    /\ providers' = providers \cup {name}
    /\ calls' = calls + 1
    /\ UNCHANGED <<groups, members, redis_client, admission, resolution, logging, now,
                   req, dispatched, listings>>

\* PUT /admin/providers/{name}: 404 when absent; the fields it assigns are
\* provider_type, base_url and api_key, never the name
update_provider(name) ==
    /\ calls < MaxCalls
    /\ \E a \in AdminTasks : req[a].pc = "idle"
    /\ providers' = IF GetProvider(name) = NoRow THEN providers ELSE providers \cup {name}
    /\ calls' = calls + 1
    /\ UNCHANGED <<groups, members, redis_client, admission, resolution, logging, now,
                   req, dispatched, listings>>

\* DELETE /admin/providers/{name}, as one request of the console
DeleteProvider(name) ==
    /\ calls < MaxCalls
    /\ \E a \in AdminTasks : req[a].pc = "idle"
    /\ providers' = providers \ {name}
    /\ calls' = calls + 1
    /\ UNCHANGED <<groups, members, redis_client, admission, resolution, logging, now,
                   req, dispatched, listings>>

\* POST /admin/groups: 400 "Group exists", else the row is added
create_group(id, balance_strategy) ==
    /\ calls < MaxCalls
    /\ \E a \in AdminTasks : req[a].pc = "idle"
    /\ groups' = IF id \in DOMAIN groups THEN groups
                 ELSE [g \in DOMAIN groups \cup {id} |->
                          IF g = id THEN balance_strategy ELSE groups[g]]
    /\ calls' = calls + 1
    /\ UNCHANGED <<providers, members, redis_client, admission, resolution, logging, now,
                   req, dispatched, listings>>

\* DELETE /admin/groups/{group_id}: g = await s.get(ModelGroup, group_id)
DeleteGroupGet(a, group_id) ==
    /\ req[a].pc = "idle"
    /\ calls < MaxCalls
    /\ req' = [req EXCEPT ![a] = [IdleReq EXCEPT
                  !.clean_id = group_id,
                  !.pc = IF group_id \in DOMAIN groups THEN "delete_group_members"
                         ELSE "idle"]]
    /\ calls' = calls + 1
    /\ UNCHANGED <<config, admission, resolution, logging, now, dispatched, listings>>

\* members = (await s.execute(select(GroupMember).where(...))).scalars().all()
DeleteGroupMembers(a) ==
    /\ req[a].pc = "delete_group_members"
    /\ req' = [req EXCEPT ![a].mlist = MembersOf(members, req[a].clean_id),
                          ![a].pc = "delete_group_commit"]
    /\ UNCHANGED <<config, admission, resolution, logging, now, calls, dispatched, listings>>

\* for m in members: await s.delete(m); await s.delete(g); await s.commit()
DeleteGroupCommit(a) ==
    /\ req[a].pc = "delete_group_commit"
    /\ LET ids == {req[a].mlist[i].id : i \in 1..Len(req[a].mlist)}
       IN  members' = SelectSeq(members, LAMBDA m : m.id \notin ids)
    /\ groups' = [g \in DOMAIN groups \ {req[a].clean_id} |-> groups[g]]
    /\ req' = [req EXCEPT ![a] = IdleReq]
    /\ UNCHANGED <<providers, redis_client, admission, resolution, logging, now, calls,
                   dispatched, listings>>

delete_group(a) ==
    \/ \E group_id \in {"g1"} : DeleteGroupGet(a, group_id)
    \/ DeleteGroupMembers(a)
    \/ DeleteGroupCommit(a)

\* POST /admin/members: if not await s.get(ModelGroup, d.group_id): raise 404
AddMemberGetGroup(a, d) ==
    /\ req[a].pc = "idle"
    /\ calls < MaxCalls
    /\ req' = [req EXCEPT ![a] = [IdleReq EXCEPT
                  !.body = d,
                  !.pc = IF d.group_id \in DOMAIN groups THEN "add_member_provider"
                         ELSE "idle"]]
    /\ calls' = calls + 1
    /\ UNCHANGED <<config, admission, resolution, logging, now, dispatched, listings>>

\* if not await s.get(Provider, d.provider_name): raise 404
AddMemberGetProvider(a) ==
    /\ req[a].pc = "add_member_provider"
    /\ req' = [req EXCEPT ![a] = IF GetProvider(req[a].body.provider_name) = NoRow
                                 THEN IdleReq
                                 ELSE [req[a] EXCEPT !.pc = "add_member_commit"]]
    /\ UNCHANGED <<config, admission, resolution, logging, now, calls, dispatched, listings>>

\* the id the store gives a new GroupMember row: one more than the largest
NextMemberId ==
    IF members = <<>> THEN 1 ELSE members[Len(members)].id + 1

\* s.add(GroupMember(...)); await s.commit()
AddMemberCommit(a) ==
    /\ req[a].pc = "add_member_commit"
    /\ LET d == req[a].body
       IN  members' = Append(members, GroupMember(NextMemberId, d.group_id,
                                          d.provider_name, d.target_model, d.weight))
    /\ req' = [req EXCEPT ![a] = IdleReq]
    /\ UNCHANGED <<providers, groups, redis_client, admission, resolution, logging, now,
                   calls, dispatched, listings>>

add_member(a) ==
    \/ \E d \in MemberReqs : AddMemberGetGroup(a, d)
    \/ AddMemberGetProvider(a)
    \/ AddMemberCommit(a)

\* DELETE /admin/members/{member_id}: if m: await s.delete(m); await s.commit()
delete_member(member_id) ==
    /\ calls < MaxCalls
    /\ \E a \in AdminTasks : req[a].pc = "idle"
    /\ members' = SelectSeq(members, LAMBDA m : m.id # member_id)
    /\ calls' = calls + 1
    /\ UNCHANGED <<providers, groups, redis_client, admission, resolution, logging, now,
                   req, dispatched, listings>>

\* one provider and one group configured, no member yet
InitGroups(tasks) ==
    /\ providers = {"p1"}
    /\ groups = [g \in {"g1"} |-> "random"]
    /\ members = <<>>
    /\ redis_client \in BOOLEAN
    /\ rr_counter = [g \in {"g0", "g1"} |-> 0]
    /\ keys = ClientKeys(NoInt, NoInt)
    /\ logs = <<>>
    /\ ratelimit = [key \in {"sk-a", MASTER_TRACKER_ID} |-> NoCounter]
    /\ log_buffer = <<>>
    /\ now = 0
    /\ phase = "running"
    /\ flush = OneFlush
    /\ req = [r \in Reqs \cup tasks |-> IdleReq]
    /\ calls = 0
    /\ picks = <<>>
    /\ admits = <<>>
    /\ dispatched = <<>>
    /\ listings = <<>>

NextGroups ==
    \/ \E name \in {"p1", "p2"} : create_provider(name)
    \/ \E name \in {"p1", "p2"} : update_provider(name)
    \/ \E name \in {"p1", "p2"} : DeleteProvider(name)
    \/ \E balance_strategy \in {"random", "round_robin"} :
           create_group("g1", balance_strategy)
    \/ \E a \in AdminTasks : delete_group(a)
    \/ \E a \in AdminTasks : add_member(a)
    \/ \E member_id \in 1..MaxMembers : delete_member(member_id)
    \/ NextWeighted

\* the console sends one request at a time
InitConsole == InitGroups({"a1"})

SpecConsole == InitConsole /\ [][NextGroups]_vars

\* two requests of the console in flight
InitConsolePair == InitGroups({"a1", "a2"})

SpecConsolePair == InitConsolePair /\ [][NextGroups]_vars

(***************************************************************************)
(* A client that asks for the models the catalog listed                    *)
(***************************************************************************)
\* the ModelGroup ids configured; every group has one member, whose provider
\* is configured
ListedGroups == {{"g1"}, {"group/g1"}, {"g1", "group/g1"}}

InitListed ==
    /\ providers \in {ProviderNames, ProviderNames \ {"group"}}
    /\ \E gs \in ListedGroups : groups = [g \in gs |-> "random"]
    /\ members = SelectSeq(<<GroupMember(1, "g1", "p1", "a", 1),
                             GroupMember(2, "group/g1", "p2", "b", 1)>>,
                           LAMBDA m : m.group_id \in DOMAIN groups)
    /\ redis_client = TRUE
    /\ rr_counter = [g \in {"g0", "g1", "group/g1"} |-> 0]
    /\ keys = ClientKeys(Some(MaxCalls), NoInt)
    /\ logs = <<>>
    /\ ratelimit = [key \in {"sk-a", MASTER_TRACKER_ID} |-> NoCounter]
    /\ log_buffer = <<>>
    /\ now = 0
    /\ phase = "running"
    /\ flush = OneFlush
    /\ req = [r \in Reqs |-> IdleReq]
    /\ calls = 0
    /\ picks = <<>>
    /\ admits = <<>>
    /\ dispatched = <<>>
    /\ listings = <<>>

\* raw_model = body.get("model") with an id of the last listing;
\* provider, real_model = await select_model_from_group(raw_model, s)
CallListed(r) ==
    /\ req[r].pc = "idle"
    /\ calls < MaxCalls
    /\ listings # <<>>
    /\ \E i \in 1..Len(listings[Len(listings)].data) :
           LET id == listings[Len(listings)].data[i].id
           IN  req' = [req EXCEPT ![r] = [IdleReq EXCEPT !.pc = "select",
                          !.ret = "resolved", !.body = [model |-> id], !.raw = id]]
    /\ calls' = calls + 1
    /\ UNCHANGED <<config, admission, resolution, logging, now, dispatched, listings>>

NextListed ==
    \E r \in Reqs :
        \/ list_models(r)
        \/ CallListed(r)
        \/ select_model_from_group(r)
        \/ ReturnSelect(r)

SpecListed == InitListed /\ [][NextListed]_vars

(***************************************************************************)
(* Properties                                                              *)
(***************************************************************************)
\* the admission decisions taken on one key, in order
DecisionsOn(key) == SelectSeq(admits, LAMBDA d : d.key = key)

\* C1: with usage_limit = U, no rate limit and usage_count 0 at the start,
\* serialized calls 1..U on the key pass admission and call U+1 is rejected
\* with HTTP 403.
C1_QuotaAdmitsFirstU ==
    LET k  == keys["sk-a"]
        ds == DecisionsOn("sk-a")
    IN  (k.usage_limit # NoInt /\ k.rate_limit = NoInt) =>
            \A i \in 1..Len(ds) :
                /\ i <= k.usage_limit[1] => ds[i].status = 200
                /\ i = k.usage_limit[1] + 1 => ds[i].status = 403

\* the rate-checked calls on one key: those that the quota check let through
RateChecked(key) == SelectSeq(admits, LAMBDA d : d.key = key /\ d.status # 403)

\* the time at which the fixed window of the i-th rate-checked call began:
\* the first call opens a window, and so does each call made 60 seconds or
\* more after its window began
RECURSIVE WindowStart(_, _)
WindowStart(ds, i) ==
    IF i = 1 THEN ds[1].t
    ELSE LET w == WindowStart(ds, i - 1)
         IN  IF ds[i].t < w + RateWindow THEN w ELSE ds[i].t

\* the position of the i-th rate-checked call inside its window
PosInWindow(ds, i) ==
    Cardinality({j \in 1..i : WindowStart(ds, j) = WindowStart(ds, i)})

\* C2: with rate_limit = R >= 1 and the cache store present, the first R
\* calls of a 60-second window that reach the rate check are admitted, call
\* R+1 of that window is rejected with HTTP 429, and a call made after the
\* counter's expiry is admitted again.
C2_RateWindow ==
    LET k  == keys["sk-a"]
        ds == RateChecked("sk-a")
    IN  (k.rate_limit # NoInt /\ redis_client) =>
            \A i \in 1..Len(ds) :
                /\ PosInWindow(ds, i) <= k.rate_limit[1] => ds[i].status = 200
                /\ PosInWindow(ds, i) = k.rate_limit[1] + 1 => ds[i].status = 429
                /\ (i > 1 /\ ds[i].t >= WindowStart(ds, i - 1) + RateWindow)
                       => ds[i].status = 200

\* C2's case: a window of R = 2 filled and overrun, then a call after expiry
C2_Witness ==
    LET ds == RateChecked("sk-a")
    IN  /\ redis_client
        /\ keys["sk-a"].rate_limit = Some(2)
        /\ Len(ds) = 4
        /\ ds[1].status = 200 /\ ds[2].status = 200 /\ ds[3].status = 429
        /\ ds[3].t < ds[1].t + RateWindow
        /\ ds[4].t >= ds[1].t + RateWindow /\ ds[4].status = 200

\* the ids of the rows of one group
MemberIds(gid) == {members[i].id : i \in {j \in 1..Len(members) : members[j].group_id = gid}}

\* C3: with round_robin, N members and the cache store present, any N
\* consecutive resolutions of the group select every member exactly once,
\* whatever rr_counter held before, also when callers run concurrently.
C3_RoundRobinVisitsAll ==
    LET n == Cardinality(MemberIds("g1"))
    IN  \A i \in 1..(Len(picks) - n + 1) :
            {picks[j] : j \in i..(i + n - 1)} = MemberIds("g1")

\* C3's case: two callers inside the resolution at once, after more than N
\* resolutions of a group of N = 3 whose counter did not start at 0
C3_Witness ==
    /\ Cardinality(MemberIds("g1")) = 3
    /\ Len(picks) = 4
    /\ rr_counter["g1"] = 6
    /\ \A c \in Callers : req[c].pc = "select_provider"

\* C4: for every model string alias/model whose alias names a configured
\* Provider, the resolver returns that Provider and the text after the
\* first '/' unchanged.
C4_DirectRoute ==
    \A c \in DOMAIN req :
        LET raw == req[c].raw
            parts == SplitFirst(raw, "/")
        IN  (req[c].pc = "resolved" /\ Contains(raw, "/") /\ parts[1] \in providers)
                => req[c].result = Resolved(Provider(parts[1]), parts[2])

\* C5: a chat request for 'group/<id>' whose group exists and has no members
\* is answered with HTTP 503 and an error body that carries a type field; no
\* member is picked and the backend is not called.
EmptyGroupRequest(r) ==
    /\ req[r].pc = "done"
    /\ req[r].rows # {}
    /\ StartsWith(req[r].raw, GroupPrefix)
    /\ ReplaceFirst(req[r].raw, GroupPrefix, "") \in DOMAIN groups
    /\ MembersOf(members, ReplaceFirst(req[r].raw, GroupPrefix, "")) = <<>>

C5_EmptyGroup503Typed ==
    \A r \in Reqs : EmptyGroupRequest(r) =>
        /\ req[r].resp.status = 503
        /\ req[r].selected = NoRow
        /\ req[r].backend = "not called"
        /\ "error" \in DOMAIN req[r].resp.body
        /\ "type" \in DOMAIN req[r].resp.body.error

\* the class names of BackendErrors in snake_case, written out by hand
ExpectedType(class_name) ==
    CASE class_name = "AuthenticationError" -> "authentication_error"
      [] class_name = "RateLimitError" -> "rate_limit_error"
      [] class_name = "APIError" -> "api_error"
      [] class_name = "ValueError" -> "value_error"

\* C6: when the backend call raises, the response's HTTP status is the error's
\* status_code when that is an integer and 500 otherwise, error.code equals the
\* HTTP status, and error.type is the snake_case form of the error's class
\* name (AuthenticationError with 401 gives HTTP 401, authentication_error).
C6_BackendErrorNormalized ==
    \A r \in Reqs : (req[r].pc = "done" /\ req[r].backend = "raised") =>
        LET e == req[r].error
            resp == req[r].resp
        IN  /\ resp.status = IF e.status_code.type = "int" THEN e.status_code.value ELSE 500
            /\ resp.body.error.code = resp.status
            /\ resp.body.error.type = ExpectedType(e.class_name)
            /\ (e.class_name = "AuthenticationError" /\ e.status_code = IntAttr(401))
                   => (resp.status = 401 /\ resp.body.error.type = "authentication_error")

C6_Witness ==
    \E r \in Reqs :
        /\ req[r].pc = "done" /\ req[r].backend = "raised"
        /\ req[r].error.class_name = "AuthenticationError"
        /\ req[r].resp.status = 401
        /\ req[r].resp.body.error.type = "authentication_error"

\* C7: every failure response of the chat endpoint to an authenticated caller
\* (quota exceeded, rate limited, unknown model or group, empty group,
\* upstream error) has the body {error: {message, type, code}} and an HTTP
\* status equal to that code.
C7_CanonicalErrorShape ==
    \A r \in Reqs :
        (req[r].pc = "done" /\ req[r].k # NoRow /\ req[r].body # NoRow
             /\ req[r].resp.status >= 400) =>
            /\ "error" \in DOMAIN req[r].resp.body
            /\ {"message", "type", "code"} \subseteq DOMAIN req[r].resp.body.error
            /\ req[r].resp.body.error.code = req[r].resp.status

\* C8: a chat request that reached dispatch ends with exactly one RequestLog
\* row of its own, and that row is success when the backend call returned and
\* fail when it raised; it is not left in processing.
C8_OneTerminalRow ==
    \A r \in Reqs : (req[r].pc = "done" /\ req[r].backend # "not called") =>
        /\ Cardinality(req[r].rows) = 1
        /\ \A id \in req[r].rows :
               /\ id \in 1..Len(logs)
               /\ req[r].backend = "returned" => logs[id].status = "success"
               /\ req[r].backend = "raised" => logs[id].status = "fail"

\* the time at which the cached list serving the i-th listing was stored,
\* were listings cached for CACHE_TTL seconds
RECURSIVE CacheFill(_, _)
CacheFill(ls, i) ==
    IF i = 1 THEN 1
    ELSE LET f == CacheFill(ls, i - 1)
         IN  IF ls[i].t < ls[f].t + CACHE_TTL THEN f ELSE i

\* C9: two listings made within the catalog TTL of 300 s return the same
\* output even if a Provider is removed between them, and a listing made
\* after the TTL has expired reflects the removal.
C9_CatalogCached ==
    \A i \in 1..Len(listings) :
        LET f == CacheFill(listings, i)
        IN  /\ listings[i].data = listings[f].data
            /\ f = i => \A j \in 1..Len(listings[i].data) :
                   \/ StartsWith(listings[i].data[j].id, GroupPrefix)
                   \/ \E name \in listings[i].providers :
                          StartsWith(listings[i].data[j].id, name \o "/")

\* C10: the one flush_to_db of an orderly shutdown leaves the write-behind
\* buffer empty whatever its length was, lengths above the batch size of 50
\* included; and a flush that finds no more than one batch (low load) leaves
\* the buffer empty.
C10_ShutdownDrains ==
    /\ phase = "stopped" => Len(log_buffer) = 0
    /\ (flush["f1"].pc = "insert"
            /\ Len(flush["f1"].items) + flush["f1"].left <= BATCH_SIZE)
           => flush["f1"].left = 0

\* the sum of the weights of a list of members
RECURSIVE TotalWeight(_)
TotalWeight(ms) == IF ms = <<>> THEN 0 ELSE Head(ms).weight + TotalWeight(Tail(ms))

\* C11: under the weighted strategy the pool holds member i exactly wi times
\* and the pick is one of the positions of that pool, so member i is the
\* outcome of wi of the sum-of-weights positions; a member of weight 0 is
\* not chosen while some member has a positive weight.
C11_WeightedPool ==
    \A r \in Reqs :
        (req[r].pc = "select_provider" /\ req[r].group = "weighted"
             /\ TotalWeight(members) > 0) =>
            /\ Len(req[r].pool) = TotalWeight(members)
            /\ \A k \in 1..Len(members) :
                   Cardinality({i \in 1..Len(req[r].pool) :
                                    req[r].pool[i].id = members[k].id}) = members[k].weight
            /\ req[r].index \in 1..TotalWeight(members)
            /\ req[r].selected = req[r].pool[req[r].index]
            /\ req[r].selected.weight > 0

\* C11's case: weights 0, 2, 1; the pick is the second of the two positions
\* of the member of weight 2
C11_Witness ==
    \E r \in Reqs :
        /\ req[r].pc = "select_provider" /\ req[r].group = "weighted"
        /\ Len(members) = 3
        /\ members[1].weight = 0 /\ members[2].weight = 2 /\ members[3].weight = 1
        /\ req[r].index = 2 /\ req[r].selected.id = 2

\* the number of calls that check_limits has let through
Admissions == Cardinality({i \in 1..Len(admits) : admits[i].status = 200})

\* C12: in a chat request acompletion is called only after check_limits and
\* the resolution have both succeeded; a request rejected for quota, rate,
\* an unknown model, provider or group, or an empty group causes no backend
\* call.
C12_DispatchAfterAdmission ==
    /\ Len(dispatched) <= Admissions
    /\ \A r \in Reqs :
           /\ req[r].backend # "not called" =>
                  (req[r].rows # {} /\ req[r].result.kind = "ok")
           /\ (req[r].pc = "done" /\ req[r].resp.status \in {403, 429, 404, 503}
                   /\ "detail" \in DOMAIN req[r].resp.body)
                  => req[r].backend = "not called"

\* C12's case: after one dispatched call, the next call on the same key is
\* rejected by the rate limit and nothing more is dispatched
C12_Witness ==
    /\ Len(dispatched) = 1
    /\ \E r \in Reqs : req[r].pc = "done" /\ req[r].resp.status = 429
                       /\ req[r].backend = "not called"

\* the number of calls on one key that check_limits has let through
AcceptedOn(key) ==
    Cardinality({i \in 1..Len(admits) : admits[i].key = key /\ admits[i].status = 200})

\* C13: usage_count is incremented on acceptance only: after a call rejected
\* with 403 or 429 the persisted usage_count is what it was, and once a call
\* is accepted its increment is persisted; the count of a key is the number
\* of its accepted calls.
C13_ChargedOnAcceptanceOnly ==
    \A r \in Reqs :
        (req[r].pc \in {"done", "admitted"} /\ req[r].k # NoRow) =>
            keys[req[r].k.key].usage_count = AcceptedOn(req[r].k.key)

\* C14: every admitted call raises the persisted usage_count by exactly one
\* whether the dispatch then succeeds or fails: when a chat request has been
\* answered, by a completion, a backend error or a resolution error, the
\* key's count is the number of calls made on it so far.
C14_NoRollback ==
    \A r \in Reqs :
        (req[r].pc = "done" /\ req[r].k # NoRow) =>
            /\ keys[req[r].k.key].usage_count = Len(DecisionsOn(req[r].k.key))
            /\ keys[req[r].k.key].usage_count = req[r].k.usage_count

\* C14's case: the second call on a key fails at the backend and the count is 2
C14_Witness ==
    \E r \in Reqs :
        /\ req[r].pc = "done" /\ req[r].backend = "raised"
        /\ keys["sk-a"].usage_count = 2
        /\ logs[1].status = "fail" /\ logs[1].provider_name = None

\* C15: for concurrent requests on one key with usage_limit = U, whatever the
\* interleaving of their reads, increments and writes of usage_count and of
\* their quota checks, at most one request beyond the limit is admitted.
C15_OvershootAtMostOne ==
    keys["sk-a"].usage_limit # NoInt =>
        AcceptedOn("sk-a") <= keys["sk-a"].usage_limit[1] + 1

\* C16: for concurrent requests on one key with rate_limit = R inside one
\* window, whatever the interleaving of their INCR, EXPIRE and compare steps,
\* at most R of them pass the rate check.
C16_RateRaceFree ==
    keys["sk-a"].rate_limit # NoInt =>
        AcceptedOn("sk-a") <= keys["sk-a"].rate_limit[1]

\* C16's case: R = 1 and four requests past INCR at once: the three that got
\* 2, 3 and 4 are rejected while the one that got 1 has yet to set the expiry
C16_Witness ==
    /\ keys["sk-a"].rate_limit = Some(1)
    /\ ratelimit["sk-a"].count = 4
    /\ Len(admits) = 3
    /\ AcceptedOn("sk-a") = 0
    /\ \E c \in Racers : req[c].pc = "rate_expire" /\ req[c].current = 1

\* C17: the persisted usage_count of a key never decreases: every write
\* stores a value at least as large as the value persisted before it.
C17_UsageCountMonotonic ==
    [][\A key \in DOMAIN keys : keys'[key].usage_count >= keys[key].usage_count]_vars

\* C18: when the cache store is not configured the gateway still serves chat
\* requests: no request is rejected by check_limits with HTTP 429 whatever the
\* key's rate_limit (a 429 of the backend is passed on as any backend error), a round_robin group resolves to one of its members, and the
\* request's RequestLog row is written to the table itself, not to the buffer.
C18_NoStoreStillServes ==
    ~redis_client =>
        /\ \A i \in 1..Len(admits) : admits[i].status # 429
        /\ \A r \in Reqs :
               /\ req[r].pc = "done" =>
                      ~(req[r].resp.status = 429 /\ req[r].backend = "not called")
               /\ (req[r].group = "round_robin" /\ req[r].selected # NoRow) =>
                      \E i \in 1..Len(members) :
                          members[i] = req[r].selected /\ members[i].group_id = req[r].clean_id
               /\ (req[r].pc = "done" /\ req[r].rows # {}) =>
                      \A id \in req[r].rows :
                          id \in 1..Len(logs) /\ logs[id].status \in {"success", "fail"}
        /\ log_buffer = <<>>

\* C18's case: without the store, the second call in a row on a key of
\* rate_limit 1 is served from the round_robin group and logged
C18_Witness ==
    /\ ~redis_client
    /\ AcceptedOn("sk-r") = 2
    /\ \E r \in Reqs :
           /\ req[r].pc = "done" /\ req[r].resp.status = 200
           /\ req[r].raw = "group/g1" /\ req[r].selected # NoRow
           /\ Len(logs) = 2 /\ logs[2].status = "success"

\* the events a completed stream of the given chunks is to produce
RECURSIVE ExpectedEvents(_)
ExpectedEvents(chunks) ==
    IF chunks = <<>> THEN <<"data: [DONE]">>
    ELSE IF Head(chunks) = "" THEN ExpectedEvents(Tail(chunks))
    ELSE <<"data: {\"delta\": \"" \o Head(chunks) \o "\"}">> \o ExpectedEvents(Tail(chunks))

\* C19: on a streaming chat call whose backend stream ends without failure the
\* client receives one data event per non-empty backend chunk, in backend
\* order, then exactly one 'data: [DONE]', and nothing after it; before the
\* end no [DONE] has been sent.
C19_StreamEvents ==
    \A r \in Reqs :
        /\ (req[r].pc = "done" /\ req[r].resp # NoRow /\ "events" \in DOMAIN req[r].resp
                /\ req[r].error = NoRow)
               => req[r].resp.events = ExpectedEvents(req[r].chunks)
        /\ req[r].pc = "streaming" =>
               \A i \in 1..Len(req[r].resp.events) : req[r].resp.events[i] # "data: [DONE]"

\* C19's case: the backend yields an empty chunk and then chunk a
C19_Witness ==
    \E r \in Reqs :
        /\ req[r].pc = "done" /\ req[r].error = NoRow
        /\ req[r].chunks = <<"", "a">>
        /\ Len(req[r].resp.events) = 2

\* a model string that names no group, no configured provider, or has no '/'
Unresolvable(raw) ==
    \/ StartsWith(raw, GroupPrefix) /\ ReplaceFirst(raw, GroupPrefix, "") \notin DOMAIN groups
    \/ ~StartsWith(raw, GroupPrefix) /\ Contains(raw, "/")
           /\ SplitFirst(raw, "/")[1] \notin providers
    \/ ~Contains(raw, "/")

\* C20: a group string naming no group, a 'provider/model' string naming no
\* configured provider and a string without '/' all fail with HTTP 404, and
\* none of them selects a provider.
C20_NotFound ==
    \A r \in Reqs :
        /\ (req[r].pc = "done" /\ req[r].rows # {} /\ Unresolvable(req[r].raw)) =>
               /\ req[r].resp.status = 404
               /\ req[r].backend = "not called"
        /\ (req[r].raw # None /\ Unresolvable(req[r].raw)) =>
               /\ req[r].result.kind # "ok"
               /\ req[r].selected = NoRow

\* C20's case: a provider that is not configured
C20_Witness ==
    \E r \in Reqs :
        /\ req[r].pc = "done" /\ req[r].raw = "zz/gpt-x"
        /\ req[r].resp.status = 404 /\ req[r].result = NotResolved

\* C21: group routing and direct routing exclude each other: a string that
\* starts with 'group/' is resolved through the ModelGroup table only, never
\* by a provider lookup on the text before its '/', every other string with
\* a '/' is resolved by that provider lookup only, whatever providers and
\* groups are configured.
C21_RoutesExclusive ==
    \A c \in DOMAIN req :
        (req[c].raw # None /\ req[c].pc # "select") =>
            LET raw == req[c].raw
            IN  /\ Cardinality(req[c].routes) <= 1
                /\ StartsWith(raw, "group/") =>
                       /\ req[c].routes = {"group"}
                       /\ req[c].result.kind = "ok" =>
                              (req[c].selected # NoRow
                                   /\ req[c].selected.group_id = SubSeq(raw, 7, Len(raw))
                                   /\ req[c].result.provider.name = req[c].selected.provider_name)
                /\ (~StartsWith(raw, "group/") /\ Contains(raw, "/")) =>
                       /\ req[c].routes = {"direct"}
                       /\ req[c].selected = NoRow

\* C21's case: a provider named 'group' is configured and the string
\* 'group/gpt-x' has been taken as a group
C21_Witness ==
    \E c \in DOMAIN req :
        /\ req[c].pc = "resolved" /\ req[c].raw = "group/gpt-x"
        /\ "group" \in providers
        /\ req[c].routes = {"group"} /\ req[c].result.kind = "http"

\* C22: the hidden operator-tracking key (MASTER_ADMIN_TRACKER, is_hidden)
\* exists after every sequence of administrative key operations (create,
\* update, delete).
C22_TrackerNeverDeleted ==
    /\ MASTER_TRACKER_ID \in DOMAIN keys
    /\ keys[MASTER_TRACKER_ID].is_hidden

\* the entries of a listing owned by a provider, and those of the groups
ProviderEntries(l, name) ==
    SelectSeq(l.data, LAMBDA m : m.owned_by # "gateway-group"
                                   /\ StartsWith(m.id, name \o "/"))
GroupEntries(l) == SelectSeq(l.data, LAMBDA m : m.owned_by = "gateway-group")

\* C23: a catalog listing does not fail because provider fetches fail: for any
\* subset of providers that raises, times out or answers non-200 the listing
\* is returned (200) with the models of the other providers and one entry
\* per ModelGroup, the failing providers contributing nothing.
C23_FetchFailuresTolerated ==
    \A i \in 1..Len(listings) :
        LET l == listings[i]
            asked == {l.ps[j] : j \in 1..Len(l.ps)}
        IN  /\ l.status = 200
            /\ \A name \in asked \ l.up : ProviderEntries(l, name) = <<>>
            /\ \A name \in l.up :
                   LET got == ProviderEntries(l, name)
                   IN  /\ Len(got) = Len(UpstreamModels(name))
                       /\ \A j \in 1..Len(got) :
                              got[j].id = name \o "/" \o UpstreamModels(name)[j]
            /\ Len(GroupEntries(l)) = Cardinality(DOMAIN groups)
            /\ \A g \in DOMAIN groups :
                   \E j \in 1..Len(GroupEntries(l)) : GroupEntries(l)[j].id = "group/" \o g
            /\ Len(l.data) = Len(GroupEntries(l))
                   + Len(ProviderEntries(l, "p1")) + Len(ProviderEntries(l, "p2"))

\* C23's case: p1 failed and p2 answered, the listing has p2's models and the
\* groups
C23_Witness ==
    \E i \in 1..Len(listings) :
        /\ listings[i].ps = <<"p1", "p2">>
        /\ listings[i].up = {"p2"}
        /\ Len(listings[i].data) = 4

\* the pushes (by position) that a list of entries or of rows holds
Stamps(list) == {list[i].ts : i \in 1..Len(list)}

\* C24 as stated: after a flush whose batch failed to parse or to insert,
\* none of the popped entries is in persistent storage or in the buffer.
C24_FailedBatchDropped ==
    (flush["f1"].pc = "return" /\ flush["f1"].items # <<>>
         /\ (~flush["f1"].committed \/ \E i \in 1..Len(flush["f1"].items) : ~Parses(flush["f1"].items[i]))) =>
        /\ Stamps(flush["f1"].items) \cap Stamps(logs) = {}
        /\ Stamps(flush["f1"].items) \cap Stamps(log_buffer) = {}

\* C24 (amended): flush_to_db comes to its return after every batch; the
\* popped entries that did not parse, and all the popped entries when the
\* insert failed, are in neither the buffer nor storage, while the entries
\* that parsed are stored when the insert succeeded; nothing popped is put
\* back, the entries that were not popped stay in the buffer in their
\* original order, and the next flush starts with them.
C24_FailedEntriesDropped ==
    (flush["f1"].pc \in {"insert", "return"} /\ flush["f1"].items # <<>>) =>
        LET items == flush["f1"].items
            rest == items \o log_buffer
        IN  /\ \A j \in 1..Len(rest) : rest[j].ts = items[1].ts + j - 1
            /\ items[1].ts \in {1, BATCH_SIZE + 1}
            /\ Len(items) = BATCH_SIZE \/ log_buffer = <<>>
            /\ flush["f1"].pc = "return" =>
                   \A i \in 1..Len(items) :
                       items[i].ts \in Stamps(logs)
                           <=> (Parses(items[i]) /\ flush["f1"].committed)

\* C24's case: a batch of 50 with one entry that does not parse went
\* through, the two entries behind it are still waiting
C24_Witness ==
    /\ flush["f1"].pc = "return" /\ flush["f1"].committed
    /\ Len(flush["f1"].items) = BATCH_SIZE
    /\ ~Parses(flush["f1"].items[2])
    /\ Len(logs) = BATCH_SIZE - 1
    /\ Len(log_buffer) = 2

\* C25: every RequestLog row, written by whichever endpoint, has a status
\* among processing, success and fail.
C25_StatusDomain ==
    \A i \in 1..Len(logs) : logs[i].status \in {"processing", "success", "fail"}

\* the rows whose request got as far as a provider
RowsWithProvider == {i \in 1..Len(logs) : logs[i].provider_name # None}

AdmissionFailed(c) ==
    /\ req[c].pc = "done" /\ req[c].raw = None
    /\ req[c].resp.status \in {401, 403, 429}
ResolutionFailed(c) ==
    /\ req[c].pc = "done" /\ req[c].raw # None
    /\ req[c].backend = "not called"

\* C27: when admission or resolution fails for a chat request, exactly one
\* RequestLog row exists for the request after the failure response, and
\* its status is fail.
C27_FailureRowMarkedFail ==
    \A c \in DOMAIN req :
        (AdmissionFailed(c) \/ ResolutionFailed(c)) =>
            /\ Cardinality(req[c].rows) = 1
            /\ \A id \in req[c].rows : id \in 1..Len(logs) /\ logs[id].status = "fail"

\* an inline error event of a stream
IsErrorEvent(event) == StartsWith(event, "data: {error: ")

\* C28: when the backend stream fails after the streaming response has
\* started, the status sent (200) stays, the non-empty chunks received before
\* the failure have been forwarded in order, and exactly one inline error
\* event is emitted, as the last event: no [DONE] and no chunk follows it.
C28_StreamFailure ==
    \A c \in DOMAIN req :
        (req[c].pc = "done" /\ req[c].resp # NoRow /\ "events" \in DOMAIN req[c].resp
             /\ req[c].error # NoRow) =>
            LET events == req[c].resp.events
                n == Len(events)
            IN  /\ req[c].resp.status = 200
                /\ n >= 1
                /\ events[n] = "data: {error: " \o req[c].error.str \o "}"
                /\ SubSeq(events, 1, n - 1) \o <<"data: [DONE]">>
                       = ExpectedEvents(req[c].chunks)
                /\ Cardinality({i \in 1..n : IsErrorEvent(events[i])}) = 1
                /\ \A i \in 1..n : events[i] # "data: [DONE]"

\* C28's case: chunks a and b were forwarded, then the stream failed
C28_Witness ==
    \E c \in DOMAIN req :
        /\ req[c].pc = "done" /\ req[c].error # NoRow
        /\ req[c].chunks = <<"a", "b">>
        /\ Len(req[c].resp.events) = 3
        /\ IsErrorEvent(req[c].resp.events[3])

\* the calls on one key that passed admission, in order
PassedOn(key) == SelectSeq(admits, LAMBDA d : d.key = key /\ d.status = 200)

\* C29: with rate_limit = R on a key (and the cache store present) at most
\* 2R requests pass the rate check in any interval of 60 seconds, wherever
\* the interval lies relative to the fixed windows.
C29_AtMostTwiceRate ==
    LET k  == keys["sk-a"]
        ds == PassedOn("sk-a")
    IN  (k.rate_limit # NoInt /\ redis_client) =>
            \A i \in 1..Len(ds) :
                Cardinality({j \in 1..Len(ds) :
                                 ds[j].t >= ds[i].t /\ ds[j].t <= ds[i].t + RateWindow})
                    <= 2 * k.rate_limit[1]

\* C29's case: R = 2, two calls passed at the end of one window and two at
\* the start of the next, 2R of them within 60 seconds
C29_Witness ==
    LET k  == keys["sk-a"]
        ds == PassedOn("sk-a")
    IN  /\ k.rate_limit = Some(2) /\ redis_client
        /\ Len(ds) = 4
        /\ ds[1].t = 0 /\ ds[2].t = 30 /\ ds[3].t = 60 /\ ds[4].t = 60

\* C30: the window is fixed by its first hit, the expiry being attached by
\* the increment that returned 1; whenever check_limits has returned or
\* raised for a rate-limited key, the counter of that key carries an expiry
\* at that moment (so that the key is admitted again 60 seconds after the
\* first hit).
C30_CounterCarriesExpiry ==
    [][(Len(RateChecked("sk-a")') > Len(RateChecked("sk-a"))
            /\ keys["sk-a"].rate_limit # NoInt /\ redis_client) =>
           /\ ratelimit["sk-a"]'.count > 0
           /\ ratelimit["sk-a"]'.ttl # NoInt
           /\ ratelimit["sk-a"]'.ttl[1] <= RateWindow]_vars

\* how many times the entry pushed k-th occurs in a list of entries or rows
Occurs(k, list) == Cardinality({i \in 1..Len(list) : list[i].ts = k})

\* the entries the running flushes hold between their pop and their insert,
\* and those their error logs account for, as numbers of occurrences
RECURSIVE InFlight(_, _)
InFlight(k, tasks) ==
    IF tasks = {} THEN 0
    ELSE LET f == CHOOSE f \in tasks : TRUE
         IN  (IF flush[f].pc = "insert" THEN Occurs(k, flush[f].items) ELSE 0)
                 + InFlight(k, tasks \ {f})
RECURSIVE Dropped(_, _)
Dropped(k, tasks) ==
    IF tasks = {} THEN 0
    ELSE LET f == CHOOSE f \in tasks : TRUE
         IN  Occurs(k, flush[f].dropped) + Dropped(k, tasks \ {f})

\* each flush takes at most BATCH_SIZE entries, from the head, in push order
BatchesFifo ==
    \A f \in DOMAIN flush :
        LET items == flush[f].items
        IN  /\ Len(items) <= BATCH_SIZE
            /\ \A j \in 1..Len(items) : items[j].ts = items[1].ts + j - 1
            /\ \A j \in 1..Len(items), b \in 1..Len(log_buffer) :
                   items[j].ts < log_buffer[b].ts
            /\ \A b \in 1..Len(log_buffer) : log_buffer[b].ts = log_buffer[1].ts + b - 1

\* C31 as stated: batches of at most 50 in push order, and at all times each
\* pushed entry is in exactly one of: buffered, inserted, dropped by a failed
\* flush.
C31_BufferedInsertedOrDropped ==
    /\ BatchesFifo
    /\ \A k \in 1..calls :
           Occurs(k, log_buffer) + Occurs(k, logs) + Dropped(k, DOMAIN flush) = 1

\* C31 (amended): each flush_to_db call removes at most 50 entries from the
\* head of the buffer in push order; every pushed entry is inserted at most
\* once, also with two concurrent flushes; and at all times each pushed
\* entry is in exactly one of: buffered, held by a running flush between its
\* pop and its insert, inserted, dropped by a failed flush.
C31_EachEntryInOnePlace ==
    /\ BatchesFifo
    /\ \A k \in 1..calls :
           /\ Occurs(k, logs) <= 1
           /\ Occurs(k, log_buffer) + InFlight(k, DOMAIN flush) + Occurs(k, logs)
                  + Dropped(k, DOMAIN flush) = 1

\* C31's case: two flushes run at once, one holds the first 50 entries and
\* the other the two behind them
C31_Witness ==
    /\ calls = BATCH_SIZE + 2
    /\ flush["f1"].pc = "insert" /\ flush["f2"].pc = "insert"
    /\ Len(flush["f1"].items) = BATCH_SIZE /\ Len(flush["f2"].items) = 2
    /\ flush["f2"].items[1].ts = BATCH_SIZE + 1

\* the decision check_limits is to take on a record, the rate counter having
\* the value count after the increment
ExpectedDecision(k, count) ==
    IF k.usage_limit # NoInt /\ k.usage_count >= k.usage_limit[1] THEN 403
    ELSE IF k.rate_limit # NoInt /\ redis_client /\ count > k.rate_limit[1] THEN 429
    ELSE 200

\* C32: a request authenticated with the operator master key is charged to
\* the hidden tracking record only: its steps change the usage_count of
\* MASTER_ADMIN_TRACKER (by one), leave the client key's record and rate
\* counter alone, and its admission is decided from the tracker's limits.
C32_OperatorChargedToTracker ==
    [][\A c \in DOMAIN req :
          (req[c].header = "Bearer " \o MASTER_KEY /\ req[c].pc # "idle") =>
              /\ keys'["sk-a"] = keys["sk-a"]
              /\ ratelimit'["sk-a"] = ratelimit["sk-a"]
              /\ (req[c].pc = "verify_commit" /\ req'[c].pc # "verify_commit") =>
                     keys'[MASTER_TRACKER_ID].usage_count
                         = keys[MASTER_TRACKER_ID].usage_count + 1
              /\ req[c].pc # "verify_commit" =>
                     keys'[MASTER_TRACKER_ID] = keys[MASTER_TRACKER_ID]
              /\ admits' # admits =>
                     /\ admits'[Len(admits')].key = MASTER_TRACKER_ID
                     /\ admits'[Len(admits')].status
                            = ExpectedDecision(keys[MASTER_TRACKER_ID],
                                               ratelimit'[MASTER_TRACKER_ID].count)]_vars

\* C32's case: the operator's second request is rejected on the tracker's
\* rate limit of 1 while the client key has not been touched
C32_Witness ==
    \E c \in DOMAIN req :
        /\ req[c].header = "Bearer " \o MASTER_KEY
        /\ req[c].pc = "done" /\ req[c].resp.status = 429
        /\ keys[MASTER_TRACKER_ID].usage_count = 2
        /\ keys["sk-a"].usage_count = 0 /\ ratelimit["sk-a"].count = 0

\* a header that names no active key: missing or without the Bearer scheme,
\* an unknown key, an inactive key
NoActiveKey(header) ==
    \/ header = None
    \/ ~StartsWith(header, "Bearer ")
    \/ LET token == Split(header, " ")[2]
       IN  /\ token # MASTER_KEY
           /\ token \notin DOMAIN keys \/ ~keys[token].is_active

C34_TerminalStatusFinal ==
    [][\A i \in 1..Len(logs) :
          logs[i].status \in {"success", "fail"} => logs'[i].status = logs[i].status]_vars

\* C35: for a group with at least one member whose providers all exist,
\* resolution succeeds under every balance_strategy value and every
\* combination of weights, all weights 0 or negative included, and the
\* provider and the upstream model returned are the provider_name and the
\* target_model of one and the same member of the group.
C35_GroupAlwaysResolves ==
    \A c \in DOMAIN req :
        (req[c].raw = "group/g1" /\ req[c].pc = "resolved") =>
            /\ req[c].result.kind = "ok"
            /\ \E k \in 1..Len(members) :
                   /\ members[k].group_id = "g1"
                   /\ members[k].provider_name = req[c].result.provider.name
                   /\ members[k].target_model = req[c].result.model

\* C35's case: the weighted strategy with weights -1 and 0
C35_Witness ==
    \E c \in DOMAIN req :
        /\ req[c].raw = "group/g1" /\ req[c].pc = "resolved"
        /\ groups["g1"] = "weighted"
        /\ Len(members) = 2 /\ members[1].weight = -1 /\ members[2].weight = 0
        /\ req[c].result.kind = "ok" /\ req[c].result.model = "b"

\* C36: after any sequence of administrative operations every GroupMember
\* references a Provider that exists, so that group resolution never ends in
\* the HTTP 500 "Provider ... linked to group not found".
C36_MembersReferToProviders ==
    /\ \A i \in 1..Len(members) : members[i].provider_name \in providers
    /\ \A c \in Reqs :
           req[c].pc = "resolved" =>
               ~(req[c].result.kind = "http" /\ req[c].result.status = 500)

\* C37: every GroupMember belongs to a ModelGroup that exists, in every
\* interleaving of add_member and delete_group on the same group id.
C37_MembersBelongToGroups ==
    \A i \in 1..Len(members) : members[i].group_id \in DOMAIN groups

\* the groups, and the provider and upstream model pairs, whose catalog
\* entry carries the id
GroupsListedAs(id) == {g \in DOMAIN groups : DisplayId(g) = id}
ProvidersListedAs(id) ==
    {pm \in UNION {{<<name, UpstreamModels(name)[i]>> :
                       i \in 1..Len(UpstreamModels(name))} : name \in providers} :
        pm[1] \o "/" \o pm[2] = id}

\* C38: every id that list_models returns resolves, through
\* select_model_from_group, to the entity that produced it: a group entry to
\* that ModelGroup, a providerName/modelId entry to that Provider with
\* modelId, ids that already start with "group/" included.
C38_CatalogResolves ==
    \A c \in Reqs :
        (req[c].pc = "resolved" /\ req[c].body # NoRow) =>
            /\ \A g \in GroupsListedAs(req[c].raw) :
                   /\ req[c].routes = {"group"}
                   /\ req[c].clean_id = g
                   /\ req[c].result.kind = "ok"
                   /\ req[c].selected.group_id = g
            /\ \A pm \in ProvidersListedAs(req[c].raw) :
                   req[c].result = Resolved(Provider(pm[1]), pm[2])

====
